---- MODULE Spec2Model ----
\* Order matching and settlement engine of the exchange backend:
\* OrderMatchingEngine (services/matching_engine.py), the Order/Trade and
\* Wallet rows (models/order.py, models/wallet.py) and the request handlers
\* that feed them (routes/trading.py, routes/wallet.py).
\*
\* Amounts.  Every Numeric(20,8) column is an integer number of "fine" units;
\* one database quantum (1e-8) is Fine fine units, so a value is on the
\* database grid iff it is a multiple of Fine.  Decimal arithmetic inside a
\* matching step is carried out on the fine grid (the Decimal context keeps
\* more digits than the column scale); db.session.commit() stores every
\* column rounded to the database grid, and the expired objects are reloaded
\* from there.  Prices are multiples of FeeRateDen quanta so that
\* quantity * price * fee_rate is an integer number of fine units.
EXTENDS Integers, Sequences, FiniteSets, TLC

\* ---------------------------------------------------------------- bounds
NumUsers == 2
MaxOrders == 3
\* orders in the runs that follow one price level through a failed step
MaxOrdersDeep == 4
\* a wallet is funded by at most this many deposits of the largest amount
MaxFunding == 1
\* decimal digits the Decimal context keeps beyond the column scale
DecimalDigits == 2
Fine == 10 ^ DecimalDigits

\* ------------------------------------------------------ program constants
FeeRateNum == 1
FeeRateDen == 1000

Users == 1..NumUsers
BaseCurrency == "DOGE"
QuoteCurrency == "USDT"
ThePair == <<BaseCurrency, QuoteCurrency>>
Pairs == {ThePair}
Currencies == {BaseCurrency, QuoteCurrency}
\* currencies for which registration creates a wallet row
RegisteredCurrencies == {"USDT", "BTC", "ETH", "BNB", "ADA", "SOL"}

Prices == {1 * FeeRateDen, 2 * FeeRateDen}
Quantities == {1 * Fine, 2 * Fine}
NoPrice == 0
\* the deposit and withdrawal requests: user 1 funds exactly the notional of
\* the largest order, user 2 that notional plus its fee
MaxNotional == 2 * Fine * 2 * FeeRateDen
MaxFee == (MaxNotional * FeeRateNum) \div FeeRateDen
DepositAmount(u, c) ==
    IF c = BaseCurrency THEN 2 * Fine
    ELSE IF u = 1 THEN MaxNotional ELSE MaxNotional + MaxFee
WithdrawAmount(u, c) == DepositAmount(u, c)

Min(a, b) == IF a <= b THEN a ELSE b

VARIABLES
    matching_algorithm,  \* 'FIFO' or 'PRO_RATA'
    orders,              \* the orders table; an order's id is its index
    wallets,             \* the wallets table, keyed by <<user_id, currency>>
    trades,              \* the trades table
    order_queues,        \* pair -> queue of order ids
    order_books,         \* pair -> [bids, asks], each a list of order ids
    worker,              \* the processing thread: where it is in _match_order
    response,            \* the last request served by a route, with its status code
    rooms,               \* connected Socket.IO client -> the rooms it has joined
    emitted,             \* the events the last engine operation has emitted
    transactions,        \* the transactions table
    exchange_wallets,    \* the exchange_wallets table (hot wallets): currency -> total_balance
    cold_wallets,        \* the cold_wallets table, keyed by currency
    cold_wallet_transfers, \* the cold_wallet_transfers table; a transfer's id is its index
    approving            \* the approve requests past their checks: request thread -> transfer id

vars == <<matching_algorithm, orders, wallets, trades, order_queues, order_books, worker,
          response, rooms, emitted, transactions,
          exchange_wallets, cold_wallets, cold_wallet_transfers, approving>>

\* the hot / cold custody tables and the approve requests in flight
custody == <<exchange_wallets, cold_wallets, cold_wallet_transfers, approving>>

\* what the engine and the order routes leave alone: the Socket.IO rooms, the
\* events on the wire (followed in SpecEvents only), the transactions table
\* and the custody tables
outside == <<rooms, emitted, transactions, custody>>

\* trading_pair.split('/')
BaseOf(pair) == pair[1]
QuoteOf(pair) == pair[2]

\* ------------------------------------------------------------ Wallet row
HasWallet(w, k) == k \in DOMAIN w

available_balance(row) == row.balance - row.locked_balance

lock_balance(w, k, amount) ==
    IF amount <= available_balance(w[k])
    THEN [w EXCEPT ![k].locked_balance = @ + amount]
    ELSE w

unlock_balance(w, k, amount) ==
    IF amount <= w[k].locked_balance
    THEN [w EXCEPT ![k].locked_balance = @ - amount]
    ELSE w

add_balance(w, k, amount) == [w EXCEPT ![k].balance = @ + amount]

deduct_balance(w, k, amount) ==
    IF amount <= w[k].balance
    THEN [w EXCEPT ![k].balance = @ - amount]
    ELSE w

\* Wallet(user_id=..., currency=...) with the column defaults
NewWallet == [balance |-> 0, locked_balance |-> 0]

get_or_create_wallet(w, k) ==
    IF HasWallet(w, k) THEN w
    ELSE [x \in DOMAIN w \cup {k} |-> IF x = k THEN NewWallet ELSE w[x]]

\* ------------------------------------------------------------- Order row
is_filled(o) == o.filled_quantity >= o.quantity

update_fill(o, quantity) ==
    LET f == o.filled_quantity + quantity
        o1 == [o EXCEPT !.filled_quantity = f, !.remaining_quantity = o.quantity - f]
    IN  IF is_filled(o1) THEN [o1 EXCEPT !.status = "filled"]
        ELSE IF f > 0 THEN [o1 EXCEPT !.status = "partially_filled"]
        ELSE o1

OrderCancel(o) ==
    IF o.status \in {"pending", "open", "partially_filled"}
    THEN [o EXCEPT !.status = "cancelled"]
    ELSE o

NewOrder(u, pair, side, order_type, price, quantity) ==
    [user_id |-> u, trading_pair |-> pair, order_type |-> order_type, side |-> side,
     price |-> price, quantity |-> quantity, filled_quantity |-> 0,
     remaining_quantity |-> quantity, status |-> "pending", fee |-> 0]

\* the processing thread between two orders
Idle == [pc |-> "idle", pair |-> ThePair, id |-> 0, i |-> 0, remaining_qty |-> 0,
         book_orders |-> <<>>, aliased |-> TRUE, maker |-> 0, match_qty |-> 0, match_price |-> 0]

\* no request has been served yet
NoResponse == [seq |-> 0, op |-> "none", request |-> <<>>, status |-> 0]

\* the admin request threads that can be inside approve_cold_transfer at once
NumApprovers == 2
Approvers == 1..NumApprovers

\* no exchange wallet, cold wallet or transfer row, no approve request in flight
NoCustody ==
    /\ exchange_wallets = <<>>
    /\ cold_wallets = <<>>
    /\ cold_wallet_transfers = <<>>
    /\ approving = [a \in Approvers |-> 0]

\* ------------------------------------------------------------------ Init
Init ==
    /\ worker = Idle
    /\ response = NoResponse
    /\ rooms = <<>>
    /\ emitted = <<>>
    /\ transactions = <<>>
    /\ NoCustody
    /\ matching_algorithm \in {"FIFO", "PRO_RATA"}
    /\ orders = <<>>
    /\ wallets = [k \in Users \X (Currencies \cap RegisteredCurrencies) |-> NewWallet]
    /\ trades = <<>>
    /\ order_queues = <<>>
    /\ order_books = <<>>

\* ------------------------------------------------- settlement of one fill
\* The state a matching step works on: the session's rows (o, w, t), the
\* pair's in-memory book (book) and whether an exception has been raised.
StepState(o, w, t, book) == [o |-> o, w |-> w, t |-> t, book |-> book, err |-> FALSE]

Fee(quantity, price) == (quantity * price * FeeRateNum) \div FeeRateDen

BuyerLeg(w, buyer, base, quote, quantity, price, fee) ==
    LET w1 == add_balance(w, <<buyer, base>>, quantity)
        w2 == unlock_balance(w1, <<buyer, quote>>, quantity * price)
    IN  deduct_balance(w2, <<buyer, quote>>, quantity * price + fee)

SellerLeg(w, seller, base, quote, quantity, price, fee) ==
    LET w1 == unlock_balance(w, <<seller, base>>, quantity)
        w2 == deduct_balance(w1, <<seller, base>>, quantity)
    IN  add_balance(w2, <<seller, quote>>, quantity * price - fee)

\* Wallet.query...first() gives None for a missing row, and the first method
\* call on it raises
WalletsPresent(w, taker_order, maker_order) ==
    LET base == BaseOf(taker_order.trading_pair)
        quote == QuoteOf(taker_order.trading_pair)
    IN  \A u \in {taker_order.user_id, maker_order.user_id} :
            HasWallet(w, <<u, base>>) /\ HasWallet(w, <<u, quote>>)

_update_wallets_after_trade(w, taker_order, maker_order, quantity, price, taker_fee, maker_fee) ==
    LET base == BaseOf(taker_order.trading_pair)
        quote == QuoteOf(taker_order.trading_pair)
    IN  IF taker_order.side = "buy"
        THEN SellerLeg(BuyerLeg(w, taker_order.user_id, base, quote, quantity, price, taker_fee),
                       maker_order.user_id, base, quote, quantity, price, maker_fee)
        ELSE BuyerLeg(SellerLeg(w, taker_order.user_id, base, quote, quantity, price, taker_fee),
                      maker_order.user_id, base, quote, quantity, price, maker_fee)

NewTrade(taker, maker, pair, price, quantity, maker_fee, taker_fee) ==
    [maker_order_id |-> maker, taker_order_id |-> taker, trading_pair |-> pair,
     price |-> price, quantity |-> quantity, maker_fee |-> maker_fee, taker_fee |-> taker_fee]

_execute_trade(s, taker, maker, quantity, price) ==
    LET maker_fee == Fee(quantity, price)
        taker_fee == Fee(quantity, price)
        o1 == [s.o EXCEPT ![taker] = update_fill(@, quantity)]
        o2 == [o1 EXCEPT ![maker] = update_fill(@, quantity)]
        o3 == [o2 EXCEPT ![taker].fee = @ + taker_fee]
        o4 == [o3 EXCEPT ![maker].fee = @ + maker_fee]
        t1 == Append(s.t, NewTrade(taker, maker, s.o[taker].trading_pair, price, quantity,
                                   maker_fee, taker_fee))
    IN  IF ~WalletsPresent(s.w, s.o[taker], s.o[maker])
        THEN [s EXCEPT !.o = o4, !.t = t1, !.err = TRUE]
        ELSE [s EXCEPT !.o = o4, !.t = t1,
                       !.w = _update_wallets_after_trade(s.w, s.o[taker], s.o[maker],
                                                         quantity, price, taker_fee, maker_fee)]

\* --------------------------------------------------------------- the book
SideOf(o) == IF o.side = "buy" THEN "bids" ELSE "asks"
OppositeSide(o) == IF o.side = "buy" THEN "asks" ELSE "bids"

RemoveAt(seq, i) == SubSeq(seq, 1, i - 1) \o SubSeq(seq, i + 1, Len(seq))
InsertAt(seq, i, x) == SubSeq(seq, 1, i - 1) \o <<x>> \o SubSeq(seq, i, Len(seq))
Without(seq, x) == SelectSeq(seq, LAMBDA y : y /= x)

\* first index at which the Pro-Rata insertion puts the order, or 0
RECURSIVE InsertIndex(_, _, _, _)
InsertIndex(o, list, id, i) ==
    IF i > Len(list) THEN 0
    ELSE LET e == o[list[i]]
             before == IF o[id].side = "buy"
                       THEN o[id].price > e.price \/ (o[id].price = e.price /\ id < list[i])
                       ELSE o[id].price < e.price \/ (o[id].price = e.price /\ id < list[i])
         IN  IF before THEN i ELSE InsertIndex(o, list, id, i + 1)

_add_to_orderbook(s, id) ==
    LET side == SideOf(s.o[id])
        list == s.book[side]
        at == InsertIndex(s.o, list, id, 1)
    IN  IF matching_algorithm = "FIFO" \/ at = 0
        THEN [s EXCEPT !.book[side] = Append(list, id)]
        ELSE [s EXCEPT !.book[side] = InsertAt(list, at, id)]

\* order.price < book_order.price (buy) / order.price > book_order.price (sell)
Incompatible(order, book_order) ==
    IF order.side = "buy" THEN order.price < book_order.price
    ELSE order.price > book_order.price

\* ------------------------------------------------------------- matching
MatchPriceOfTaker(order, book_order) == order.price

\* match_price = book_order.price  ("Maker price takes precedence")
MatchPrice(order, book_order) == book_order.price

\* the while loop of _match_market_order / _match_limit_order_fifo; limit
\* says whether the price check of the FIFO loop applies.  The result carries
\* the local remaining_qty in rem.
RECURSIVE MatchLoop(_, _, _, _, _)
MatchLoop(s, id, i, remaining_qty, limit) ==
    LET book_orders == s.book[OppositeSide(s.o[id])]
    IN  IF s.err \/ i > Len(book_orders) \/ remaining_qty <= 0
        THEN [st |-> s, rem |-> remaining_qty]
        ELSE LET maker == book_orders[i]
                 book_order == s.o[maker]
             IN  IF limit /\ Incompatible(s.o[id], book_order)
                 THEN [st |-> s, rem |-> remaining_qty]
                 ELSE LET match_qty == Min(remaining_qty, book_order.remaining_quantity)
                          s1 == _execute_trade(s, id, maker, match_qty,
                                               MatchPrice(s.o[id], book_order))
                      IN  IF s1.err THEN [st |-> s1, rem |-> remaining_qty]
                          ELSE IF is_filled(s1.o[maker])
                          THEN MatchLoop([s1 EXCEPT !.book[OppositeSide(s.o[id])] =
                                              RemoveAt(book_orders, i)],
                                         id, i, remaining_qty - match_qty, limit)
                          ELSE MatchLoop(s1, id, i + 1, remaining_qty - match_qty, limit)

_match_market_order(s, id) ==
    LET r == MatchLoop(s, id, 1, s.o[id].remaining_quantity, FALSE)
    IN  IF r.st.err THEN r.st
        ELSE IF r.rem = 0
        THEN [r.st EXCEPT !.o[id].status = "filled"]
        ELSE [r.st EXCEPT !.o[id].status = "partially_filled"]

\* the tail shared by the two limit algorithms: rest the residual or mark filled
RestOrFill(s, id, remaining_qty) ==
    IF remaining_qty > 0
    THEN _add_to_orderbook(
             [s EXCEPT !.o[id].status =
                  IF s.o[id].filled_quantity = 0 THEN "open" ELSE "partially_filled"], id)
    ELSE [s EXCEPT !.o[id].status = "filled"]

_match_limit_order_fifo(s, id) ==
    LET r == MatchLoop(s, id, 1, s.o[id].remaining_quantity, TRUE)
    IN  IF r.st.err THEN r.st ELSE RestOrFill(r.st, id, r.rem)

\* the resting orders at the best crossable price level, in book order
RECURSIVE CompatibleOrders(_, _, _, _, _)
CompatibleOrders(o, id, book_orders, i, best_price) ==
    IF i > Len(book_orders) THEN <<>>
    ELSE LET book_order == o[book_orders[i]]
         IN  IF Incompatible(o[id], book_order) THEN <<>>
             ELSE IF best_price /= NoPrice /\ book_order.price /= best_price THEN <<>>
             ELSE <<book_orders[i]>> \o
                  CompatibleOrders(o, id, book_orders, i + 1, book_order.price)

RECURSIVE SumRemaining(_, _)
SumRemaining(o, list) ==
    IF list = <<>> THEN 0
    ELSE o[Head(list)].remaining_quantity + SumRemaining(o, Tail(list))

\* Decimal division and multiplication of the allocation, on the fine grid:
\* the quotient a / b is rounded half-even to 1/Fine, and so is the product
RoundHalfEven(num, den) ==
    LET q == num \div den
        r2 == 2 * (num % den)
    IN  IF r2 > den \/ (r2 = den /\ q % 2 = 1) THEN q + 1 ELSE q

Proportion(remaining, total_available) == RoundHalfEven(remaining * Fine, total_available)

Allocated(remaining_qty, proportion) == RoundHalfEven(remaining_qty * proportion, Fine)

\* "Fill all compatible orders"
RECURSIVE FillAll(_, _, _, _, _)
FillAll(s, id, compatible_orders, remaining_qty, best_price) ==
    IF s.err \/ compatible_orders = <<>> THEN [st |-> s, rem |-> remaining_qty]
    ELSE LET maker == Head(compatible_orders)
             match_qty == s.o[maker].remaining_quantity
             s1 == _execute_trade(s, id, maker, match_qty, best_price)
             s2 == IF ~s1.err /\ is_filled(s1.o[maker])
                   THEN [s1 EXCEPT !.book[OppositeSide(s.o[id])] = Without(@, maker)]
                   ELSE s1
         IN  IF s1.err THEN [st |-> s1, rem |-> remaining_qty]
             ELSE FillAll(s2, id, Tail(compatible_orders), remaining_qty - match_qty, best_price)

\* "Allocate proportionally": the allocations list, then the execution loop
Allocations(o, compatible_orders, remaining_qty, total_available) ==
    [k \in 1..Len(compatible_orders) |->
        [book_order |-> compatible_orders[k],
         allocated_qty |-> Allocated(remaining_qty,
                               Proportion(o[compatible_orders[k]].remaining_quantity,
                                          total_available))]]

RECURSIVE ExecuteAllocations(_, _, _, _, _)
ExecuteAllocations(s, id, allocations, remaining_qty, best_price) ==
    IF s.err \/ allocations = <<>> THEN [st |-> s, rem |-> remaining_qty]
    ELSE LET maker == Head(allocations).book_order
             allocated_qty == Head(allocations).allocated_qty
             match_qty == Min(Min(allocated_qty, remaining_qty), s.o[maker].remaining_quantity)
         IN  IF allocated_qty > 0 /\ remaining_qty > 0 /\ match_qty > 0
             THEN LET s1 == _execute_trade(s, id, maker, match_qty, best_price)
                      s2 == IF ~s1.err /\ is_filled(s1.o[maker])
                            THEN [s1 EXCEPT !.book[OppositeSide(s.o[id])] = Without(@, maker)]
                            ELSE s1
                  IN  IF s1.err THEN [st |-> s1, rem |-> remaining_qty]
                      ELSE ExecuteAllocations(s2, id, Tail(allocations),
                                              remaining_qty - match_qty, best_price)
             ELSE ExecuteAllocations(s, id, Tail(allocations), remaining_qty, best_price)

_match_limit_order_pro_rata(s, id) ==
    LET book_orders == s.book[OppositeSide(s.o[id])]
        remaining_qty == s.o[id].remaining_quantity
        compatible_orders == CompatibleOrders(s.o, id, book_orders, 1, NoPrice)
    IN  IF compatible_orders = <<>>
        THEN _add_to_orderbook([s EXCEPT !.o[id].status = "open"], id)
        ELSE LET best_price == s.o[compatible_orders[1]].price
                 total_available == SumRemaining(s.o, compatible_orders)
                 r == IF remaining_qty >= total_available
                      THEN FillAll(s, id, compatible_orders, remaining_qty, best_price)
                      ELSE ExecuteAllocations(s, id,
                               Allocations(s.o, compatible_orders, remaining_qty, total_available),
                               remaining_qty, best_price)
             IN  IF r.st.err THEN r.st ELSE RestOrFill(r.st, id, r.rem)

_match_limit_order(s, id) ==
    IF matching_algorithm = "PRO_RATA"
    THEN _match_limit_order_pro_rata(s, id)
    ELSE _match_limit_order_fifo(s, id)

\* ------------------------------------------------------------- commit
\* db.session.commit(): every Numeric(20,8) column is stored rounded to the
\* database grid (half away from zero; all amounts here are >= 0) and the
\* objects are reloaded from the stored rows on their next use.
RoundDB(x) == ((x + Fine \div 2) \div Fine) * Fine

CommitOrders(o) ==
    [i \in DOMAIN o |->
        [o[i] EXCEPT !.filled_quantity = RoundDB(@), !.remaining_quantity = RoundDB(@),
                     !.fee = RoundDB(@)]]

CommitWallets(w) ==
    [k \in DOMAIN w |-> [balance |-> RoundDB(w[k].balance),
                         locked_balance |-> RoundDB(w[k].locked_balance)]]

CommitTrades(t) ==
    [i \in DOMAIN t |->
        [t[i] EXCEPT !.quantity = RoundDB(@), !.maker_fee = RoundDB(@), !.taker_fee = RoundDB(@)]]

\* ----------------------------------------------------------- the engine
EmptyBook == [bids |-> <<>>, asks |-> <<>>]

\* dict[key] = value
Put(f, k, v) == [x \in DOMAIN f \cup {k} |-> IF x = k THEN v ELSE f[x]]

\* get_orderbook(pair, depth=1)[side][0]['price'], or 0: the price of the
\* first order of the list.  float(price) and Decimal(str(...)) give back the
\* same number for the integral prices used here.
_get_market_price(pair, side) ==
    IF pair \in DOMAIN order_books /\ order_books[pair][side] /= <<>>
    THEN orders[order_books[pair][side][1]].price
    ELSE 0

\* a put at the end from which get takes
QueuePutFirst(queue, id) == <<id>> \o queue

\* Queue.put: get takes from the other end
QueuePut(queue, id) == Append(queue, id)

\* OrderMatchingEngine.add_order
add_order(id, pair) ==
    IF pair \in DOMAIN order_queues
    THEN /\ order_queues' = [order_queues EXCEPT ![pair] = QueuePut(@, id)]
         /\ order_books' = order_books
    ELSE /\ order_queues' = Put(order_queues, pair, QueuePut(<<>>, id))
         /\ order_books' = Put(order_books, pair, EmptyBook)

\* the amount place_order checks and locks
RequiredAmountOfQuantity(pair, side, quantity, price) == quantity

required_amount(pair, side, quantity, price) ==
    IF side = "buy"
    THEN quantity * (IF price /= NoPrice THEN price ELSE _get_market_price(pair, "asks"))
    ELSE quantity

\* POST /api/trading/order, for a request that passes validation
place_order(u, pair, side, order_type, quantity, price) ==
    LET currency == IF side = "buy" THEN QuoteOf(pair) ELSE BaseOf(pair)
        k == <<u, currency>>
    IN  /\ order_type = "limit" => price /= NoPrice
        /\ quantity > 0
        /\ HasWallet(wallets, k)
        /\ ~(available_balance(wallets[k]) < required_amount(pair, side, quantity, price))
        /\ wallets' = CommitWallets(lock_balance(wallets, k,
                                                 required_amount(pair, side, quantity, price)))
        /\ orders' = CommitOrders(Append(orders, NewOrder(u, pair, side, order_type, price, quantity)))
        /\ add_order(Len(orders) + 1, pair)
        /\ UNCHANGED <<matching_algorithm, trades>>

\* one turn of _process_orders for a pair whose queue is not empty:
\* queue.get() and _match_order, ended by commit or by rollback
ProcessOrder(pair) ==
    /\ pair \in DOMAIN order_queues
    /\ order_queues[pair] /= <<>>
    /\ LET id == Head(order_queues[pair])
           s0 == StepState(orders, wallets, trades, order_books[pair])
           s1 == IF orders[id].order_type = "market"
                 THEN _match_market_order(s0, id)
                 ELSE _match_limit_order(s0, id)
       IN  /\ order_queues' = [order_queues EXCEPT ![pair] = Tail(@)]
           /\ order_books' = [order_books EXCEPT ![pair] = s1.book]
           /\ IF s1.err
              THEN UNCHANGED <<orders, wallets, trades>>
              ELSE /\ orders' = CommitOrders(s1.o)
                   /\ wallets' = CommitWallets(s1.w)
                   /\ trades' = CommitTrades(s1.t)
    /\ UNCHANGED matching_algorithm

\* Order.cancel's own test, wider than the one of cancel_order
CancellableByOrder(o) == o.status \in {"pending", "open", "partially_filled"}

\* order.status in ['open', 'partially_filled']
Cancellable(o) == o.status \in {"open", "partially_filled"}

\* OrderMatchingEngine.cancel_order, for a call that returns True
cancel_order(id) ==
    LET order == orders[id]
        pair == order.trading_pair
        side == SideOf(order)
        currency == IF order.side = "buy" THEN QuoteOf(pair) ELSE BaseOf(pair)
        amount == IF order.side = "buy" THEN order.remaining_quantity * order.price
                  ELSE order.remaining_quantity
        k == <<order.user_id, currency>>
    IN  /\ id \in DOMAIN orders
        /\ Cancellable(order)
        \* remaining_quantity * None raises before anything is written
        /\ ~(order.side = "buy" /\ order.price = NoPrice)
        /\ order_books' =
               IF pair \in DOMAIN order_books
               THEN [order_books EXCEPT ![pair][side] = Without(@, id)]
               ELSE order_books
        /\ wallets' = IF HasWallet(wallets, k)
                      THEN CommitWallets(unlock_balance(wallets, k, amount))
                      ELSE wallets
        /\ orders' = CommitOrders([orders EXCEPT ![id] = OrderCancel(@)])
        /\ UNCHANGED <<matching_algorithm, trades, order_queues>>

\* POST /api/wallet/deposit
deposit(u, currency, amount) ==
    LET k == <<u, currency>>
        w == get_or_create_wallet(wallets, k)
    IN  /\ amount > 0
        /\ wallets' = CommitWallets(add_balance(w, k, amount))
        /\ UNCHANGED <<matching_algorithm, orders, trades, order_queues, order_books>>

\* POST /api/wallet/withdraw, for a request that is accepted
withdraw(u, currency, amount) ==
    LET k == <<u, currency>>
    IN  /\ amount > 0
        /\ HasWallet(wallets, k)
        /\ ~(available_balance(wallets[k]) < amount)
        /\ amount <= wallets[k].balance
        /\ wallets' = CommitWallets(deduct_balance(wallets, k, amount))
        /\ UNCHANGED <<matching_algorithm, orders, trades, order_queues, order_books>>

PlaceLimit ==
    /\ Len(orders) < MaxOrders
    /\ \E u \in Users, pair \in Pairs, side \in {"buy", "sell"}, q \in Quantities, p \in Prices :
        place_order(u, pair, side, "limit", q, p)
    /\ UNCHANGED <<worker, response, outside>>

PlaceMarket ==
    /\ Len(orders) < MaxOrders
    /\ \E u \in Users, pair \in Pairs, side \in {"buy", "sell"}, q \in Quantities :
        place_order(u, pair, side, "market", q, NoPrice)
    /\ UNCHANGED <<worker, response, outside>>

Process ==
    /\ worker.pc = "idle"
    /\ UNCHANGED <<worker, response, outside>>
    /\ \E pair \in DOMAIN order_queues : ProcessOrder(pair)

Cancel == worker.pc = "idle" /\ UNCHANGED <<worker, response, outside>> /\ \E id \in DOMAIN orders : cancel_order(id)

Balance(u, c) == IF HasWallet(wallets, <<u, c>>) THEN wallets[<<u, c>>].balance ELSE 0

Deposit ==
    \E u \in Users, c \in Currencies :
        /\ Balance(u, c) + DepositAmount(u, c) <= MaxFunding * DepositAmount(u, c)
        /\ deposit(u, c, DepositAmount(u, c))
        /\ UNCHANGED <<worker, response, outside>>

Withdraw == UNCHANGED <<worker, response, outside>> /\ \E u \in Users, c \in Currencies : withdraw(u, c, WithdrawAmount(u, c))

Next == PlaceLimit \/ PlaceMarket \/ Process \/ Cancel \/ Deposit

Spec == Init /\ [][Next]_vars

\* the engine as the application creates it (MATCHING_ALGORITHM default)
InitFIFO == Init /\ matching_algorithm = "FIFO"
SpecFIFO == InitFIFO /\ [][Next]_vars

MaxOrdersDirect == 2

\* A caller of the engine that hands add_order an order it has already
\* marked open, without locking funds (test_order_cancellation)
AddOpenOrder(u, pair, side, quantity, price) ==
    /\ orders' = CommitOrders(Append(orders,
                     [NewOrder(u, pair, side, "limit", price, quantity) EXCEPT !.status = "open"]))
    /\ add_order(Len(orders) + 1, pair)
    /\ UNCHANGED <<matching_algorithm, wallets, trades>>

AddOpen ==
    /\ Len(orders) < MaxOrdersDirect
    /\ \E u \in Users, pair \in Pairs, side \in {"buy", "sell"}, q \in Quantities, p \in Prices :
           AddOpenOrder(u, pair, side, q, p)
    /\ UNCHANGED <<worker, response, outside>>

NextDirect == AddOpen \/ Process \/ Cancel \/ Deposit
SpecDirect == InitFIFO /\ [][NextDirect]_vars

\* limit orders at one price, followed over more orders
PlaceLimitDeep ==
    /\ Len(orders) < MaxOrdersDeep
    /\ \E u \in Users, pair \in Pairs, side \in {"buy", "sell"}, q \in Quantities :
           place_order(u, pair, side, "limit", q, 2 * FeeRateDen)
    /\ UNCHANGED <<worker, response, outside>>

NextDeep == PlaceLimitDeep \/ Process \/ Cancel \/ Deposit
SpecDeep == InitFIFO /\ [][NextDeep]_vars

\* the same runs with the engine created with matching_algorithm='PRO_RATA':
\* up to three orders resting at one price level and an incoming order
InitProRata == Init /\ matching_algorithm = "PRO_RATA"
SpecProRataDeep == InitProRata /\ [][NextDeep]_vars

\* ---------------------------------------------- the two threads, unlocked
\* _match_order runs on the processing thread and cancel_order on a request
\* thread; neither takes self.lock.  The processing thread is followed
\* through the FIFO / market loop statement group by statement group; a
\* cancel_order call runs between any two of them.  book_orders is the loop's
\* local reference to the opposite list: cancel_order rebinds
\* order_books[pair][side] to a new list, after which the loop goes on with
\* the old one (aliased = FALSE).
WorkerBegin(pair) ==
    /\ worker.pc = "idle"
    /\ pair \in DOMAIN order_queues
    /\ order_queues[pair] /= <<>>
    /\ LET id == Head(order_queues[pair])
       IN  worker' = [Idle EXCEPT !.pc = "loop", !.pair = pair, !.id = id, !.i = 1,
                                  !.remaining_qty = orders[id].remaining_quantity,
                                  !.book_orders = order_books[pair][OppositeSide(orders[id])]]
    /\ order_queues' = [order_queues EXCEPT ![pair] = Tail(@)]
    /\ UNCHANGED <<matching_algorithm, orders, wallets, trades, order_books, response, outside>>

\* the while condition, book_order = book_orders[i], the price check,
\* match_qty and match_price
WorkerPick ==
    /\ worker.pc = "loop"
    /\ LET order == orders[worker.id]
           more == worker.i <= Len(worker.book_orders) /\ worker.remaining_qty > 0
       IN  IF more /\ ~(order.order_type = "limit"
                          /\ Incompatible(order, orders[worker.book_orders[worker.i]]))
           THEN LET maker == worker.book_orders[worker.i]
                IN  worker' = [worker EXCEPT
                        !.pc = "trade", !.maker = maker,
                        !.match_qty = Min(worker.remaining_qty, orders[maker].remaining_quantity),
                        !.match_price = MatchPrice(order, orders[maker])]
           ELSE worker' = [worker EXCEPT !.pc = "finish"]
    /\ UNCHANGED <<matching_algorithm, orders, wallets, trades, order_queues, order_books, response, outside>>

\* _execute_trade, remaining_qty -= match_qty, and the pop or i += 1
WorkerTrade ==
    /\ worker.pc = "trade"
    /\ LET pair == worker.pair
           side == OppositeSide(orders[worker.id])
           s1 == _execute_trade(StepState(orders, wallets, trades, order_books[pair]),
                                worker.id, worker.maker, worker.match_qty, worker.match_price)
           popped == is_filled(s1.o[worker.maker])
       IN  IF s1.err
           THEN \* no wallet row is missing in the runs of this thread model
                /\ worker' = Idle
                /\ UNCHANGED <<orders, wallets, trades, order_books>>
           ELSE /\ orders' = s1.o
                /\ wallets' = s1.w
                /\ trades' = s1.t
                /\ worker' = [worker EXCEPT
                       !.pc = "loop",
                       !.remaining_qty = @ - worker.match_qty,
                       !.book_orders = IF popped THEN RemoveAt(@, worker.i) ELSE @,
                       !.i = IF popped THEN @ ELSE @ + 1]
                /\ order_books' =
                       IF popped /\ worker.aliased
                       THEN [order_books EXCEPT ![pair][side] = RemoveAt(@, worker.i)]
                       ELSE order_books
    /\ UNCHANGED <<matching_algorithm, order_queues, response, outside>>

\* the status update after the loop, _add_to_orderbook, and the commit
WorkerFinish ==
    /\ worker.pc = "finish"
    /\ LET pair == worker.pair
           s0 == StepState(orders, wallets, trades, order_books[pair])
           s1 == IF orders[worker.id].order_type = "market"
                 THEN IF worker.remaining_qty = 0
                      THEN [s0 EXCEPT !.o[worker.id].status = "filled"]
                      ELSE [s0 EXCEPT !.o[worker.id].status = "partially_filled"]
                 ELSE RestOrFill(s0, worker.id, worker.remaining_qty)
       IN  /\ orders' = CommitOrders(s1.o)
           /\ wallets' = CommitWallets(s1.w)
           /\ trades' = CommitTrades(s1.t)
           /\ order_books' = [order_books EXCEPT ![pair] = s1.book]
    /\ worker' = Idle
    /\ UNCHANGED <<matching_algorithm, order_queues, response, outside>>

\* cancel_order on a request thread, at any point of the processing thread
RequestCancel ==
    \E id \in DOMAIN orders :
        /\ cancel_order(id)
        /\ worker' =
               IF /\ worker.pc /= "idle"
                  /\ worker.pair = orders[id].trading_pair
                  /\ OppositeSide(orders[worker.id]) = SideOf(orders[id])
               THEN [worker EXCEPT !.aliased = FALSE]
               ELSE worker
        /\ UNCHANGED <<response, outside>>

\* every user has registered and deposited in both currencies
InitThreads ==
    /\ worker = Idle
    /\ response = NoResponse
    /\ rooms = <<>>
    /\ emitted = <<>>
    /\ transactions = <<>>
    /\ NoCustody
    /\ matching_algorithm = "FIFO"
    /\ orders = <<>>
    /\ wallets = [k \in Users \X Currencies |->
                     [balance |-> DepositAmount(k[1], k[2]), locked_balance |-> 0]]
    /\ trades = <<>>
    /\ order_queues = <<>>
    /\ order_books = <<>>

WorkerStart == \E pair \in DOMAIN order_queues : WorkerBegin(pair)

NextThreads ==
    PlaceLimit \/ PlaceMarket \/ WorkerStart \/ WorkerPick \/ WorkerTrade \/ WorkerFinish
        \/ RequestCancel
SpecThreads == InitThreads /\ [][NextThreads]_vars

\* ------------------------------------------- the routes, with their replies
\* Every request is followed with its reply: response holds the last request
\* served and its HTTP status.  Requests are placed on a pair of
\* SUPPORTED_PAIRS and on a pair outside it, and include malformed ones.
MaxRequests == 3

\* config.py SUPPORTED_PAIRS (one of its pairs is followed)
SUPPORTED_PAIRS == {<<"BTC", "USDT">>}
RequestPairs == SUPPORTED_PAIRS \cup {ThePair}

OrderRequest(u, pair, side, order_type, quantity, price) ==
    [user |-> u, pair |-> pair, side |-> side, order_type |-> order_type,
     quantity |-> quantity, price |-> price]

WellFormedRequests ==
    {OrderRequest(u, pair, side, "limit", 1 * Fine, p) :
         u \in Users, pair \in RequestPairs, side \in {"buy", "sell"}, p \in Prices}
    \cup {OrderRequest(u, pair, side, "market", 1 * Fine, NoPrice) :
              u \in Users, pair \in RequestPairs, side \in {"buy", "sell"}}

\* one field of a well-formed request replaced by a value outside its domain
MalformedRequests ==
    LET pair == CHOOSE x \in SUPPORTED_PAIRS : TRUE
    IN  {OrderRequest(1, pair, "hold", "limit", 1 * Fine, 1 * FeeRateDen),
         OrderRequest(1, pair, "buy", "stop", 1 * Fine, 1 * FeeRateDen),
         OrderRequest(1, pair, "buy", "limit", 0, 1 * FeeRateDen),
         OrderRequest(1, pair, "sell", "market", 0 - Fine, NoPrice),
         OrderRequest(1, pair, "buy", "limit", 1 * Fine, NoPrice),
         OrderRequest(1, pair, "buy", "limit", 1 * Fine, 0 - FeeRateDen),
         OrderRequest(1, pair, "sell", "limit", 1 * Fine, 0 - FeeRateDen)}

\* the status place_order replies with
PlaceOrderStatus(req) ==
    LET currency == IF req.side = "buy" THEN QuoteOf(req.pair) ELSE BaseOf(req.pair)
        k == <<req.user, currency>>
    IN  IF req.side \notin {"buy", "sell"} THEN 400
        ELSE IF req.order_type \notin {"market", "limit"} THEN 400
        ELSE IF req.order_type = "limit" /\ req.price = NoPrice THEN 400
        ELSE IF req.quantity <= 0 THEN 400
        ELSE IF ~HasWallet(wallets, k) THEN 400
        ELSE IF available_balance(wallets[k])
                    < required_amount(req.pair, req.side, req.quantity, req.price) THEN 400
        ELSE 201

\* POST /api/trading/order
PlaceOrderRoute(req) ==
    LET status == PlaceOrderStatus(req)
    IN  /\ response' = [seq |-> response.seq + 1, op |-> "place_order",
                        request |-> req, status |-> status]
        /\ IF status = 201
           THEN place_order(req.user, req.pair, req.side, req.order_type, req.quantity, req.price)
           ELSE UNCHANGED <<matching_algorithm, orders, wallets, trades, order_queues, order_books>>

\* the status the cancel route replies with
CancelOrderStatus(u, id) ==
    IF id \notin DOMAIN orders THEN 404
    ELSE IF orders[id].user_id /= u THEN 404
    ELSE IF ~Cancellable(orders[id]) THEN 400
    \* remaining_quantity * None raises inside the engine
    ELSE IF orders[id].side = "buy" /\ orders[id].price = NoPrice THEN 500
    ELSE 200

\* DELETE /api/trading/order/<order_id>, with the engine's cancel_order
CancelOrderRoute(u, id) ==
    LET status == CancelOrderStatus(u, id)
    IN  /\ response' = [seq |-> response.seq + 1, op |-> "cancel_order",
                        request |-> [user |-> u, order_id |-> id], status |-> status]
        /\ IF status = 200
           THEN cancel_order(id)
           ELSE UNCHANGED <<matching_algorithm, orders, wallets, trades, order_queues, order_books>>

PlaceOrderRequest ==
    /\ response.seq < MaxRequests
    /\ \E req \in WellFormedRequests \cup MalformedRequests : PlaceOrderRoute(req)
    /\ UNCHANGED <<worker, outside>>

CancelOrderRequest ==
    /\ response.seq < MaxRequests
    /\ \E u \in Users, id \in 1..(Len(orders) + 1) : CancelOrderRoute(u, id)
    /\ UNCHANGED <<worker, outside>>

\* registered users who have deposited in the registration currencies; no
\* wallet row exists for BaseCurrency
InitRequests ==
    /\ worker = Idle
    /\ response = NoResponse
    /\ rooms = <<>>
    /\ emitted = <<>>
    /\ transactions = <<>>
    /\ NoCustody
    /\ matching_algorithm = "FIFO"
    /\ orders = <<>>
    /\ wallets = [k \in Users \X ({QuoteOf(pair) : pair \in SUPPORTED_PAIRS}
                                    \cup {BaseOf(pair) : pair \in SUPPORTED_PAIRS}) |->
                     [balance |-> IF k[2] = QuoteCurrency
                                  THEN DepositAmount(k[1], QuoteCurrency)
                                  ELSE DepositAmount(k[1], BaseCurrency),
                      locked_balance |-> 0]]
    /\ trades = <<>>
    /\ order_queues = <<>>
    /\ order_books = <<>>

NextRequests == PlaceOrderRequest \/ CancelOrderRequest \/ Process
SpecRequests == InitRequests /\ [][NextRequests]_vars

\* ------------------------------------------------------- the snapshot
\* list[:n]
Slice(seq, n) ==
    IF n >= 0 THEN SubSeq(seq, 1, Min(n, Len(seq)))
    ELSE SubSeq(seq, 1, IF Len(seq) + n > 0 THEN Len(seq) + n ELSE 0)

\* one entry of a side.  float() of a column value of the range followed here
\* is the double nearest to it, different for different values; the entry
\* carries the value.
OrderbookEntry(order) ==
    [price |-> order.price, quantity |-> order.remaining_quantity,
     total |-> order.price * order.remaining_quantity]

\* OrderMatchingEngine.get_orderbook on the order objects o and the books
\* [{...} for order in order_book[side][:depth]]
OrderbookSide(o, list, depth) ==
    [i \in DOMAIN Slice(list, depth) |-> OrderbookEntry(o[list[i]])]

get_orderbook(o, books, pair, depth) ==
    IF pair \notin DOMAIN books THEN [bids |-> <<>>, asks |-> <<>>]
    ELSE [bids |-> OrderbookSide(o, books[pair].bids, depth),
          asks |-> OrderbookSide(o, books[pair].asks, depth)]

\* def get_orderbook(self, pair, depth: int = 20)
DefaultDepth == 20

\* ------------------------------------------------------------ the events
\* socketio.emit(event, data) names no room: the server sends the event to
\* every client connected to the namespace.  An event is recorded with the
\* clients it is sent to.
Emit(events, event, pair, id, data) ==
    Append(events, [event |-> event, pair |-> pair, id |-> id, data |-> data,
                    to |-> DOMAIN rooms])

\* a broadcast that puts the event before those already sent
BroadcastTradeFirst(events, id, trade) ==
    <<[event |-> "trade", pair |-> trade.trading_pair, id |-> id, data |-> trade,
       to |-> DOMAIN rooms]>> \o events

\* _broadcast_trade: trade.to_dict() of the flushed Trade row number id
_broadcast_trade(events, id, trade) == Emit(events, "trade", trade.trading_pair, id, trade)

\* _broadcast_orderbook_update
_broadcast_orderbook_update(events, o, books, pair) ==
    Emit(events, "orderbook_update", pair, 0, get_orderbook(o, books, pair, DefaultDepth))

\* the _broadcast_trade calls of one matching step: _execute_trade ends with
\* one for its trade; the fill that raised never reached its own
RECURSIVE TradeBroadcasts(_, _, _, _)
TradeBroadcasts(events, t, from, to) ==
    IF from > to THEN events
    ELSE TradeBroadcasts(_broadcast_trade(events, from, t[from]), t, from + 1, to)

\* what _match_order puts on the wire in a step that starts with n trades in
\* the table and ends in s1: the trade events, and after the commit the
\* update of the book (o and books are the orders and books after the step)
MatchOrderEvents(s1, n, pair, o, books) ==
    LET sent == TradeBroadcasts(<<>>, s1.t, n + 1, IF s1.err THEN Len(s1.t) - 1 ELSE Len(s1.t))
    IN  IF s1.err THEN sent ELSE _broadcast_orderbook_update(sent, o, books, pair)

\* the order type test of _match_order
MatchByType(s0, id) ==
    IF s0.o[id].order_type = "market"
    THEN _match_market_order(s0, id)
    ELSE _match_limit_order(s0, id)

\* _match_order with what it puts on the wire
MatchOrderEmit(pair) ==
    /\ ProcessOrder(pair)
    /\ emitted' = MatchOrderEvents(
                      MatchByType(StepState(orders, wallets, trades, order_books[pair]),
                                  Head(order_queues[pair])),
                      Len(trades), pair, orders', order_books')

\* cancel_order with what it puts on the wire
CancelOrderEmit(id) ==
    /\ cancel_order(id)
    /\ emitted' = _broadcast_orderbook_update(<<>>, orders', order_books',
                                              orders[id].trading_pair)

\* the room a subscription joins: f'pair_{pair}'
RoomOf(pair) == <<"pair_", pair>>

\* handle_connect: a connected client is in no pair room
handle_connect(c) ==
    /\ c \notin DOMAIN rooms
    /\ rooms' = Put(rooms, c, {})

\* handle_disconnect: the server takes the client out of every room
handle_disconnect(c) ==
    /\ c \in DOMAIN rooms
    /\ rooms' = [x \in DOMAIN rooms \ {c} |-> rooms[x]]

\* handle_subscribe
handle_subscribe(c, pair) ==
    /\ c \in DOMAIN rooms
    /\ rooms' = [rooms EXCEPT ![c] = @ \cup {RoomOf(pair)}]

\* handle_unsubscribe
handle_unsubscribe(c, pair) ==
    /\ c \in DOMAIN rooms
    /\ rooms' = [rooms EXCEPT ![c] = @ \ {RoomOf(pair)}]

\* the Socket.IO clients
NumClients == 1
Clients == 1..NumClients

ProcessEmit ==
    /\ worker.pc = "idle"
    /\ \E pair \in DOMAIN order_queues : MatchOrderEmit(pair)
    /\ UNCHANGED <<worker, response, rooms, transactions, custody>>

CancelEmit ==
    /\ worker.pc = "idle"
    /\ \E id \in DOMAIN orders : CancelOrderEmit(id)
    /\ UNCHANGED <<worker, response, rooms, transactions, custody>>

SocketFrame ==
    UNCHANGED <<matching_algorithm, orders, wallets, trades, order_queues, order_books,
                worker, response, emitted, transactions, custody>>

Connect == (\E c \in Clients : handle_connect(c)) /\ SocketFrame
Disconnect == (\E c \in Clients : handle_disconnect(c)) /\ SocketFrame
Subscribe == (\E c \in Clients, pair \in RequestPairs : handle_subscribe(c, pair)) /\ SocketFrame
Unsubscribe == (\E c \in Clients, pair \in RequestPairs : handle_unsubscribe(c, pair)) /\ SocketFrame

\* user 1 has registered and deposited in both currencies, user 2 has
\* registered and deposited in the quote currency only
InitEvents ==
    /\ worker = Idle
    /\ response = NoResponse
    /\ rooms = <<>>
    /\ emitted = <<>>
    /\ transactions = <<>>
    /\ NoCustody
    /\ matching_algorithm = "FIFO"
    /\ orders = <<>>
    /\ wallets = [k \in (Users \X {QuoteCurrency}) \cup {<<1, BaseCurrency>>} |->
                     [balance |-> DepositAmount(k[1], k[2]), locked_balance |-> 0]]
    /\ trades = <<>>
    /\ order_queues = <<>>
    /\ order_books = <<>>

NextEvents ==
    PlaceLimit \/ PlaceMarket \/ ProcessEmit \/ CancelEmit
        \/ Connect \/ Disconnect \/ Subscribe \/ Unsubscribe
SpecEvents == InitEvents /\ [][NextEvents]_vars

\* ------------------------------------------------- the snapshot route
\* a handler that takes the orders it shows out of the book
GetOrderbookDraining(pair, depth) ==
    /\ response' = [seq |-> response.seq + 1, op |-> "get_orderbook",
                    request |-> [pair |-> pair, depth |-> depth], status |-> 200,
                    body |-> get_orderbook(orders, order_books, pair, depth)]
    /\ order_books' = [p \in DOMAIN order_books |->
                          IF p = pair
                          THEN [bids |-> SubSeq(order_books[p].bids, depth + 1,
                                                Len(order_books[p].bids)),
                                asks |-> SubSeq(order_books[p].asks, depth + 1,
                                                Len(order_books[p].asks))]
                          ELSE order_books[p]]
    /\ UNCHANGED <<matching_algorithm, orders, wallets, trades, order_queues>>

\* GET /api/trading/orderbook?pair=..&depth=..
GetOrderbookRoute(pair, depth) ==
    /\ response' = [seq |-> response.seq + 1, op |-> "get_orderbook",
                    request |-> [pair |-> pair, depth |-> depth], status |-> 200,
                    body |-> get_orderbook(orders, order_books, pair, depth)]
    /\ UNCHANGED <<matching_algorithm, orders, wallets, trades, order_queues, order_books>>

\* the depths a snapshot is asked for
MaxDepth == 2

GetOrderbookRequest ==
    /\ response.seq < MaxRequests
    /\ \E pair \in RequestPairs, depth \in 1..MaxDepth : GetOrderbookRoute(pair, depth)
    /\ UNCHANGED <<worker, outside>>

NextSnapshot == PlaceOrderRequest \/ CancelOrderRequest \/ Process \/ GetOrderbookRequest
SpecSnapshot == InitRequests /\ [][NextSnapshot]_vars

\* ------------------------------------------------------- WalletService
\* WalletService.deposit and WalletService.withdraw, as functions of the
\* wallets table w and the transactions table tx: the tables after the call
\* and the exception it raised ("" for none).
NewTransaction(u, transaction_type, currency, amount) ==
    [user_id |-> u, transaction_type |-> transaction_type, currency |-> currency,
     amount |-> amount, status |-> "completed"]

\* the Numeric(20,8) column of the transactions table at commit
CommitTransactions(tx) == [i \in DOMAIN tx |-> [tx[i] EXCEPT !.amount = RoundDB(@)]]

WalletService_deposit(w, tx, u, currency, amount) ==
    LET k == <<u, currency>>
        w1 == CommitWallets(get_or_create_wallet(w, k))
    IN  [w |-> CommitWallets(add_balance(w1, k, amount)),
         tx |-> CommitTransactions(Append(tx, NewTransaction(u, "deposit", currency, amount))),
         raised |-> ""]

\* a guard that looks at the balance only
InsufficientOfBalance(row, amount) == row.balance < amount

\* wallet.available_balance < amount
Insufficient(row, amount) == available_balance(row) < amount

WalletService_withdraw(w, tx, u, currency, amount) ==
    LET k == <<u, currency>>
        w1 == CommitWallets(get_or_create_wallet(w, k))
    IN  IF Insufficient(w1[k], amount)
        THEN [w |-> w1, tx |-> tx, raised |-> "Insufficient balance"]
        ELSE [w |-> CommitWallets(deduct_balance(w1, k, amount)),
              tx |-> CommitTransactions(Append(tx, NewTransaction(u, "withdraw", currency, amount))),
              raised |-> ""]

\* the amounts of the calls: half a quantum of the column, one and two quanta
Amounts == {Fine \div 2, 1 * Fine, 2 * Fine}

\* a call of the service, with what it raised
ServiceCall(op, u, currency, amount, result) ==
    /\ response' = [seq |-> response.seq + 1, op |-> op,
                    request |-> [user |-> u, currency |-> currency, amount |-> amount],
                    status |-> 0, raised |-> result.raised]
    /\ wallets' = result.w
    /\ transactions' = result.tx
    /\ UNCHANGED <<matching_algorithm, orders, trades, order_queues, order_books, worker,
                   rooms, emitted, custody>>

ServiceDeposit ==
    /\ response.seq < MaxRequests
    /\ \E u \in Users, amount \in Amounts :
           ServiceCall("deposit", u, QuoteCurrency, amount,
                       WalletService_deposit(wallets, transactions, u, QuoteCurrency, amount))

ServiceWithdraw ==
    /\ response.seq < MaxRequests
    /\ \E u \in Users, amount \in Amounts :
           ServiceCall("withdraw", u, QuoteCurrency, amount,
                       WalletService_withdraw(wallets, transactions, u, QuoteCurrency, amount))

\* the wallet rows the calls start from: user 1 has a quote wallet holding
\* zero to two quanta of which none or one is locked for an open order, user 2
\* has no wallet row yet
InitWallet ==
    /\ worker = Idle
    /\ response = NoResponse
    /\ rooms = <<>>
    /\ emitted = <<>>
    /\ transactions = <<>>
    /\ NoCustody
    /\ matching_algorithm = "FIFO"
    /\ orders = <<>>
    /\ \E balance \in {0, 1 * Fine, 2 * Fine}, locked_balance \in {0, 1 * Fine} :
           /\ locked_balance <= balance
           /\ wallets = [k \in {<<1, QuoteCurrency>>} |->
                            [balance |-> balance, locked_balance |-> locked_balance]]
    /\ trades = <<>>
    /\ order_queues = <<>>
    /\ order_books = <<>>

NextWallet == ServiceDeposit \/ ServiceWithdraw
SpecWallet == InitWallet /\ [][NextWallet]_vars

\* -------------------------------------------------- hot / cold custody
\* WalletService.transfer_to_cold_wallet, transfer_from_cold_wallet and
\* _execute_cold_to_hot_transfer as functions of the exchange_wallets table
\* (hot), the cold_wallets table (cold) and the cold_wallet_transfers table
\* (tr): the tables after the call and the exception it raised ("" for none).
\* An amount is whatever Decimal the request carries; the Numeric(20,8)
\* columns hold it rounded.

\* ColdWallet.min_transfer_amount: the column default (100) is above every
\* amount requested here; the configured value lets some requests wait for an
\* approval
DefaultMinTransferAmount == 100 * Fine
MinTransferAmount == 1 * Fine

\* ColdWallet(currency=...) with the column defaults
NewColdWallet == [balance |-> 0, min_transfer_amount |-> DefaultMinTransferAmount,
                  is_locked |-> FALSE]

NewColdWalletTransfer(transfer_type, currency, amount, status) ==
    [transfer_type |-> transfer_type, currency |-> currency, amount |-> amount,
     status |-> status]

get_or_create_cold_wallet(cold, currency) ==
    IF currency \in DOMAIN cold THEN cold ELSE Put(cold, currency, NewColdWallet)

CommitExchangeWallets(hot) ==
    [c \in DOMAIN hot |-> [total_balance |-> RoundDB(hot[c].total_balance)]]

CommitColdWallets(cold) ==
    [c \in DOMAIN cold |-> [cold[c] EXCEPT !.balance = RoundDB(@)]]

CommitTransfers(tr) == [i \in DOMAIN tr |-> [tr[i] EXCEPT !.amount = RoundDB(@)]]

\* ExchangeWallet(currency=...) has total_balance None until it is flushed:
\* comparing or adding to it raises TypeError
WalletService_transfer_to_cold_wallet(hot, cold, tr, currency, amount) ==
    IF currency \notin DOMAIN hot
    THEN [hot |-> hot, cold |-> cold, tr |-> tr, raised |-> "TypeError"]
    ELSE IF hot[currency].total_balance < amount
    THEN [hot |-> hot, cold |-> cold, tr |-> tr, raised |-> "ValueError"]
    ELSE LET hot1 == [hot EXCEPT ![currency].total_balance = @ - amount]
             cold1 == CommitColdWallets(get_or_create_cold_wallet(cold, currency))
             cold2 == [cold1 EXCEPT ![currency].balance = @ + amount]
         IN  [hot |-> CommitExchangeWallets(hot1),
              cold |-> CommitColdWallets(cold2),
              tr |-> CommitTransfers(Append(tr,
                         NewColdWalletTransfer("to_cold", currency, amount, "completed"))),
              raised |-> ""]

\* the transfer row tr[id] is read back from the table: its amount is the
\* stored one
_execute_cold_to_hot_transfer(hot, cold, tr, id) ==
    LET transfer == tr[id]
        c == transfer.currency
    IN  IF c \notin DOMAIN hot
        THEN [hot |-> hot, cold |-> cold, tr |-> tr, raised |-> "TypeError"]
        ELSE [hot |-> CommitExchangeWallets(
                          [hot EXCEPT ![c].total_balance = @ + transfer.amount]),
              cold |-> CommitColdWallets([cold EXCEPT ![c].balance = @ - transfer.amount]),
              tr |-> CommitTransfers([tr EXCEPT ![id].status = "completed"]),
              raised |-> ""]

WalletService_transfer_from_cold_wallet(hot, cold, tr, currency, amount) ==
    IF currency \notin DOMAIN cold
    THEN [hot |-> hot, cold |-> cold, tr |-> tr, raised |-> "ValueError"]
    ELSE IF cold[currency].is_locked
    THEN [hot |-> hot, cold |-> cold, tr |-> tr, raised |-> "ValueError"]
    ELSE IF cold[currency].balance < amount
    THEN [hot |-> hot, cold |-> cold, tr |-> tr, raised |-> "ValueError"]
    ELSE LET tr1 == CommitTransfers(Append(tr,
                        NewColdWalletTransfer("from_cold", currency, amount, "pending")))
         IN  IF amount <= cold[currency].min_transfer_amount
             THEN _execute_cold_to_hot_transfer(hot, cold, tr1, Len(tr1))
             ELSE [hot |-> hot, cold |-> cold, tr |-> tr1, raised |-> ""]

\* the status an admin route replies with: ValueError is answered 400, any
\* other exception 500 after a rollback
StatusOfRaised(raised) ==
    IF raised = "" THEN 200 ELSE IF raised = "ValueError" THEN 400 ELSE 500

\* the requests served by the admin routes in one run
MaxCustodyRequests == 4

\* engine, wallets, sockets and transactions are not touched by the admin routes
CustodyFrame ==
    UNCHANGED <<matching_algorithm, orders, wallets, trades, order_queues, order_books,
                worker, rooms, emitted, transactions>>

\* POST /api/admin/transfer/to-cold and /from-cold, for an amount > 0
TransferRoute(op, currency, amount, result) ==
    /\ amount > 0
    /\ response' = [seq |-> response.seq + 1, op |-> op,
                    request |-> [currency |-> currency, amount |-> amount],
                    status |-> StatusOfRaised(result.raised)]
    /\ exchange_wallets' = result.hot
    /\ cold_wallets' = result.cold
    /\ cold_wallet_transfers' = result.tr
    /\ UNCHANGED approving
    /\ CustodyFrame

transfer_to_cold ==
    /\ response.seq < MaxCustodyRequests
    /\ \E amount \in Amounts :
           TransferRoute("transfer_to_cold", QuoteCurrency, amount,
               WalletService_transfer_to_cold_wallet(exchange_wallets, cold_wallets,
                   cold_wallet_transfers, QuoteCurrency, amount))

transfer_from_cold ==
    /\ response.seq < MaxCustodyRequests
    /\ \E amount \in Amounts :
           TransferRoute("transfer_from_cold", QuoteCurrency, amount,
               WalletService_transfer_from_cold_wallet(exchange_wallets, cold_wallets,
                   cold_wallet_transfers, QuoteCurrency, amount))

\* the checks of approve_cold_transfer; no lock is held and the transfer row
\* is not locked, so other requests run between the checks and the execution
ApproveStatus(id) ==
    IF id \notin DOMAIN cold_wallet_transfers THEN 404
    ELSE IF cold_wallet_transfers[id].status /= "pending" THEN 400
    ELSE IF cold_wallet_transfers[id].transfer_type /= "from_cold" THEN 400
    ELSE 200

\* POST /api/admin/transfer/approve/<transfer_id>, up to the call of
\* _execute_cold_to_hot_transfer
ApproveCheck(a, id) ==
    /\ approving[a] = 0
    /\ response.seq < MaxCustodyRequests
    /\ IF ApproveStatus(id) = 200
       THEN /\ approving' = [approving EXCEPT ![a] = id]
            \* no reply yet
            /\ response' = [seq |-> response.seq + 1, op |-> "approve_cold_transfer",
                            request |-> [transfer_id |-> id], status |-> 0]
       ELSE /\ response' = [seq |-> response.seq + 1, op |-> "approve_cold_transfer",
                            request |-> [transfer_id |-> id], status |-> ApproveStatus(id)]
            /\ UNCHANGED approving
    /\ UNCHANGED <<exchange_wallets, cold_wallets, cold_wallet_transfers>>
    /\ CustodyFrame

\* the rest of approve_cold_transfer: the execution and the reply
ApproveExecute(a) ==
    /\ approving[a] /= 0
    /\ LET result == _execute_cold_to_hot_transfer(exchange_wallets, cold_wallets,
                                                   cold_wallet_transfers, approving[a])
       IN  /\ exchange_wallets' = result.hot
           /\ cold_wallets' = result.cold
           /\ cold_wallet_transfers' = result.tr
           /\ response' = [seq |-> response.seq, op |-> "approve_cold_transfer",
                           request |-> [transfer_id |-> approving[a]],
                           status |-> StatusOfRaised(result.raised)]
    /\ approving' = [approving EXCEPT ![a] = 0]
    /\ CustodyFrame

approve_cold_transfer ==
    \/ \E a \in Approvers, id \in 1..(Len(cold_wallet_transfers) + 1) : ApproveCheck(a, id)
    \/ \E a \in Approvers : ApproveExecute(a)

\* the tables the admin requests start from: the hot wallet row of the quote
\* currency is missing or holds nothing or two quanta, the cold wallet row is
\* missing or holds nothing or two quanta with a configured
\* min_transfer_amount
InitCustody ==
    /\ worker = Idle
    /\ response = NoResponse
    /\ rooms = <<>>
    /\ emitted = <<>>
    /\ transactions = <<>>
    /\ matching_algorithm = "FIFO"
    /\ orders = <<>>
    /\ wallets = <<>>
    /\ trades = <<>>
    /\ order_queues = <<>>
    /\ order_books = <<>>
    /\ exchange_wallets \in
           {<<>>} \cup {[c \in {QuoteCurrency} |-> [total_balance |-> b]] : b \in {0, 2 * Fine}}
    /\ cold_wallets \in
           {<<>>} \cup {[c \in {QuoteCurrency} |->
                            [balance |-> b, min_transfer_amount |-> MinTransferAmount,
                             is_locked |-> FALSE]] : b \in {0, 2 * Fine}}
    /\ cold_wallet_transfers = <<>>
    /\ approving = [a \in Approvers |-> 0]

NextCustody == transfer_to_cold \/ transfer_from_cold \/ approve_cold_transfer
SpecCustody == InitCustody /\ [][NextCustody]_vars

\* ------------------------------------------- the processing thread's loop
\* _process_orders followed through its sweeps over self.order_queues, with
\* orders admitted on several pairs while it runs.  The engine is running
\* (stop() is not called).  worker holds the dict iterator of the for loop:
\* pos entries consumed, used = the size of the dict when the iterator was
\* created, and error = the exception the loop's except clause caught last.
MaxOrdersWorker == 3

\* the keys of self.order_queues in insertion order: a pair's queue is created
\* by add_order for the first order of the pair
RECURSIVE KeysFrom(_, _)
KeysFrom(o, i) ==
    IF i > Len(o) THEN <<>>
    ELSE (IF \A j \in 1..(i - 1) : o[j].trading_pair /= o[i].trading_pair
          THEN <<o[i].trading_pair>> ELSE <<>>) \o KeysFrom(o, i + 1)

DictKeys == KeysFrom(orders, 1)

\* iter(self.order_queues.items())
NewIterator(size, error) == [pc |-> "for", pos |-> 0, used |-> size, error |-> error]

\* a loop without the except clause: the exception ends the thread
Terminated(size, error) == [pc |-> "dead", pos |-> 0, used |-> size, error |-> error]

\* except Exception: the error is printed and the while loop starts the next
\* sweep with a new iterator
CaughtInLoop(size, error) == NewIterator(size, error)

EngineUnchanged ==
    UNCHANGED <<matching_algorithm, orders, wallets, trades, order_queues, order_books>>

\* the thread's position after its next step: the wait ends and a sweep
\* begins, or the iterator's next() raises RuntimeError (dictionary changed
\* size during iteration), is exhausted, or yields the next pair
IteratorStep ==
    IF worker.pc = "wait" THEN NewIterator(Len(DictKeys), worker.error)
    ELSE IF worker.used /= Len(DictKeys) THEN CaughtInLoop(Len(DictKeys), "RuntimeError")
    ELSE IF worker.pos >= Len(DictKeys) THEN [worker EXCEPT !.pc = "wait"]
    ELSE [worker EXCEPT !.pos = @ + 1]

\* one step of the for statement: the iterator's next() and the loop body
WorkerFor ==
    /\ worker.pc = "for"
    /\ worker' = IteratorStep
    /\ IF worker.used = Len(DictKeys) /\ worker.pos < Len(DictKeys)
       THEN IF order_queues[DictKeys[worker.pos + 1]] = <<>>
            THEN EngineUnchanged
            ELSE ProcessOrder(DictKeys[worker.pos + 1])
       ELSE EngineUnchanged
    /\ UNCHANGED <<response, outside>>

\* threading.Event().wait(0.01), then the next sweep
WorkerWait ==
    /\ worker.pc = "wait"
    /\ worker' = IteratorStep
    /\ EngineUnchanged
    /\ UNCHANGED <<response, outside>>

_process_orders == WorkerFor \/ WorkerWait

\* the thread is scheduled: its position advances.  Within NextWorker the
\* steps that change worker are the steps of _process_orders, and a step of
\* _process_orders is possible exactly when the thread has not ended (the body
\* never blocks: queue.get() is called on a non-empty queue only)
Scheduled ==
    /\ worker.pc \in {"for", "wait"}
    /\ worker' = IteratorStep

\* place_order on a request thread, at any point of the loop
PlaceWorker ==
    /\ Len(orders) < MaxOrdersWorker
    /\ \E u \in Users, pair \in RequestPairs, side \in {"buy", "sell"} :
           place_order(u, pair, side, "limit", 1 * Fine, 1 * FeeRateDen)
    /\ UNCHANGED <<worker, response, outside>>

\* the engine has been started with no queue; both users have the wallets of
\* the supported pair, user 1 also a wallet of the other base currency
InitWorker ==
    /\ worker = NewIterator(0, "")
    /\ response = NoResponse
    /\ rooms = <<>>
    /\ emitted = <<>>
    /\ transactions = <<>>
    /\ NoCustody
    /\ matching_algorithm = "FIFO"
    /\ orders = <<>>
    /\ wallets = [k \in (Users \X ({QuoteOf(pair) : pair \in SUPPORTED_PAIRS}
                                     \cup {BaseOf(pair) : pair \in SUPPORTED_PAIRS}))
                         \cup {<<1, BaseCurrency>>} |->
                     [balance |-> IF k[2] = QuoteCurrency
                                  THEN DepositAmount(k[1], QuoteCurrency)
                                  ELSE DepositAmount(k[1], BaseCurrency),
                      locked_balance |-> 0]]
    /\ trades = <<>>
    /\ order_queues = <<>>
    /\ order_books = <<>>

NextWorker == PlaceWorker \/ _process_orders
SpecWorker == InitWorker /\ [][NextWorker]_vars

\* the processing thread is a running thread: it keeps being scheduled
SpecWorkerLive == SpecWorker /\ WF_worker(Scheduled)

\* ======================================================== properties
Range(seq) == {seq[i] : i \in DOMAIN seq}
Terminal == {"filled", "cancelled", "rejected"}
Live == {"open", "partially_filled"}

RECURSIVE SumOver(_, _)
SumOver(S, f) == IF S = {} THEN 0 ELSE LET x == CHOOSE y \in S : TRUE IN f[x] + SumOver(S \ {x}, f)

\* total balance of a currency over all users, in a wallets table
TotalBalance(w, c) ==
    LET K == {k \in DOMAIN w : k[2] = c}
    IN  SumOver(K, [k \in K |-> w[k].balance])

BookOf(pair, side) == IF pair \in DOMAIN order_books THEN order_books[pair][side] ELSE <<>>

\* the trades a step has added
NewTradeIds == (Len(trades) + 1)..Len(trades')

\* C1  No crossed book at rest: on every pair, every resting bid has a price
\* strictly below the price of every resting ask.
NoCrossedBook ==
    \A pair \in DOMAIN order_books :
        \A b \in Range(order_books[pair].bids), a \in Range(order_books[pair].asks) :
            orders[b].price < orders[a].price

\* C2  Balance non-negativity: every wallet row has balance >= locked_balance >= 0.
BalanceCoversLocked ==
    \A k \in DOMAIN wallets :
        wallets[k].balance >= wallets[k].locked_balance /\ wallets[k].locked_balance >= 0

\* a step of deposit or withdraw: only the wallets table changes
ExternalStep == UNCHANGED <<orders, trades, order_queues, order_books>>

\* C3  Conservation: a step that is no deposit or withdrawal leaves the total
\* base balance unchanged and lowers the total quote balance by exactly the
\* maker and taker fees of the trades it executed.
Conservation ==
    [][~ExternalStep =>
        \A pair \in Pairs :
            LET fees == SumOver(NewTradeIds,
                                [k \in NewTradeIds |-> trades'[k].maker_fee + trades'[k].taker_fee])
            IN  /\ TotalBalance(wallets', BaseOf(pair)) = TotalBalance(wallets, BaseOf(pair))
                /\ TotalBalance(wallets', QuoteOf(pair)) = TotalBalance(wallets, QuoteOf(pair)) - fees
      ]_vars

\* C4  Fill atomicity: a matching step that records one trade between two
\* different users has applied every effect of that fill: the buyer's quote
\* balance is down by notional + fee and the buyer's base balance up by the
\* quantity, the seller's base balance is down by the quantity and the
\* seller's quote balance up by notional - fee.
FillAllOrNothing ==
    [][Len(trades') = Len(trades) + 1 =>
        LET t == trades'[Len(trades')]
            taker == orders[t.taker_order_id]
            maker == orders[t.maker_order_id]
            buyer == IF taker.side = "buy" THEN taker.user_id ELSE maker.user_id
            seller == IF taker.side = "buy" THEN maker.user_id ELSE taker.user_id
            buyer_fee == IF taker.side = "buy" THEN t.taker_fee ELSE t.maker_fee
            seller_fee == IF taker.side = "buy" THEN t.maker_fee ELSE t.taker_fee
            base == BaseOf(t.trading_pair)
            quote == QuoteOf(t.trading_pair)
            notional == t.quantity * t.price
        IN  buyer /= seller =>
              /\ wallets'[<<buyer, quote>>].balance
                     = wallets[<<buyer, quote>>].balance - (notional + buyer_fee)
              /\ wallets'[<<buyer, base>>].balance = wallets[<<buyer, base>>].balance + t.quantity
              /\ wallets'[<<seller, base>>].balance = wallets[<<seller, base>>].balance - t.quantity
              /\ wallets'[<<seller, quote>>].balance
                     = wallets[<<seller, quote>>].balance + (notional - seller_fee)
      ]_vars

\* C7  Order/trade bookkeeping: the filled quantity of every order is the sum
\* of the quantities of the persisted trades it takes part in.
TradedQuantity(id) ==
    LET K == {k \in DOMAIN trades :
                 trades[k].maker_order_id = id \/ trades[k].taker_order_id = id}
    IN  SumOver(K, [k \in K |-> trades[k].quantity])

FilledIsSumOfTrades ==
    \A id \in DOMAIN orders : orders[id].filled_quantity = TradedQuantity(id)

\* C8  Trade price validity: every trade carries the limit price of its maker
\* order, whatever the price of the taker.
TradePriceIsMakerPrice ==
    \A k \in DOMAIN trades : trades[k].price = orders[trades[k].maker_order_id].price

\* a limit taker has traded at a maker price different from its own limit,
\* and a market taker has traded
TradePriceWitness ==
    /\ \E k \in DOMAIN trades :
           /\ orders[trades[k].taker_order_id].order_type = "limit"
           /\ orders[trades[k].taker_order_id].price /= orders[trades[k].maker_order_id].price
    /\ \E k \in DOMAIN trades : orders[trades[k].taker_order_id].order_type = "market"

\* C10  Price priority: when a step fills a resting order, no order that was
\* resting on the same side at a strictly better price is left with remaining
\* quantity.
Better(side, p, q) == IF side = "sell" THEN p < q ELSE p > q

PricePriority ==
    [][\A k \in NewTradeIds :
          LET m == trades'[k].maker_order_id
              side == SideOf(orders[m])
          IN  \A m2 \in Range(BookOf(trades'[k].trading_pair, side)) :
                  Better(orders[m].side, orders[m2].price, orders[m].price)
                      => orders'[m2].remaining_quantity = 0
      ]_vars

\* C6  Status monotonicity: an order whose status is filled, cancelled or
\* rejected keeps that status in every later step.
StatusMonotone ==
    [][\A id \in DOMAIN orders :
          orders[id].status \in Terminal => orders'[id].status = orders[id].status
      ]_vars

\* C9  Time priority in FIFO mode: of two live limit orders on the same side
\* of a pair at the same price, the one admitted later receives no fill in a
\* step unless the earlier one is filled or cancelled after that step.
TimePriority ==
    [][matching_algorithm = "FIFO" =>
        \A a \in DOMAIN orders, b \in DOMAIN orders :
            ( /\ a < b
              /\ orders[a].order_type = "limit" /\ orders[b].order_type = "limit"
              /\ orders[a].trading_pair = orders[b].trading_pair
              /\ orders[a].side = orders[b].side
              /\ orders[a].price = orders[b].price
              /\ orders[a].status \in Live /\ orders[b].status \in Live
              /\ orders'[b].filled_quantity > orders[b].filled_quantity )
            => orders'[a].status \in {"filled", "cancelled"}
      ]_vars

\* C5  Cancellation is linearized with matching: a cancelled order receives
\* no fill and stays cancelled, and a filled order is never turned into a
\* cancelled one.
CancelLinearized ==
    [][\A id \in DOMAIN orders :
          /\ orders[id].status = "cancelled" =>
                 /\ orders'[id].status = "cancelled"
                 /\ orders'[id].filled_quantity = orders[id].filled_quantity
          /\ orders[id].status = "filled" => orders'[id].status /= "cancelled"
      ]_vars

\* the step takes the head of the pair's queue: one turn of _process_orders
Dequeued(pair) ==
    /\ pair \in DOMAIN order_queues
    /\ order_queues[pair] /= <<>>
    /\ order_queues'[pair] = Tail(order_queues[pair])

\* C11  Market order outcome: after a market order is processed it is in no
\* book; its status is filled if any quantity was consumed and rejected if
\* nothing was consumed.
MarketOutcome ==
    [][\A pair \in DOMAIN order_queues :
          (Dequeued(pair) /\ orders[Head(order_queues[pair])].order_type = "market") =>
              LET id == Head(order_queues[pair])
              IN  /\ id \notin Range(order_books'[pair].bids) \cup Range(order_books'[pair].asks)
                  /\ orders'[id].filled_quantity > 0 => orders'[id].status = "filled"
                  /\ orders'[id].filled_quantity = 0 => orders'[id].status = "rejected"
      ]_vars

\* the resting orders a step has traded against
NewMakers == {trades'[k].maker_order_id : k \in NewTradeIds}

\* C12  Limit order outcome: after a limit order is processed, with remaining
\* quantity it rests on its own side, open if nothing was filled and
\* partially_filled otherwise; without remaining quantity it is in no book and
\* filled; a maker it consumed in part stays in the book, partially_filled,
\* with remaining = quantity - filled.
LimitOutcome ==
    [][\A pair \in DOMAIN order_queues :
          (Dequeued(pair) /\ orders[Head(order_queues[pair])].order_type = "limit") =>
              LET id == Head(order_queues[pair])
                  own == Range(order_books'[pair][SideOf(orders[id])])
                  opposite == Range(order_books'[pair][OppositeSide(orders[id])])
              IN  /\ orders'[id].remaining_quantity > 0 =>
                         /\ id \in own
                         /\ orders'[id].status =
                                IF orders'[id].filled_quantity = 0 THEN "open" ELSE "partially_filled"
                  /\ orders'[id].remaining_quantity = 0 =>
                         /\ id \notin own \cup opposite
                         /\ orders'[id].status = "filled"
                  /\ \A m \in NewMakers :
                         orders'[m].remaining_quantity > 0 =>
                             /\ m \in opposite
                             /\ orders'[m].status = "partially_filled"
                             /\ orders'[m].remaining_quantity
                                    = orders'[m].quantity - orders'[m].filled_quantity
      ]_vars

\* what one fill owes to the wallet row of user u in currency c
SettlementDelta(u, c, t) ==
    LET taker == orders[t.taker_order_id]
        maker == orders[t.maker_order_id]
        buyer == IF taker.side = "buy" THEN taker.user_id ELSE maker.user_id
        seller == IF taker.side = "buy" THEN maker.user_id ELSE taker.user_id
        buyer_fee == IF taker.side = "buy" THEN t.taker_fee ELSE t.maker_fee
        seller_fee == IF taker.side = "buy" THEN t.maker_fee ELSE t.taker_fee
        notional == t.quantity * t.price
    IN  (IF u = buyer /\ c = QuoteOf(t.trading_pair) THEN 0 - (notional + buyer_fee) ELSE 0)
        + (IF u = buyer /\ c = BaseOf(t.trading_pair) THEN t.quantity ELSE 0)
        + (IF u = seller /\ c = BaseOf(t.trading_pair) THEN 0 - t.quantity ELSE 0)
        + (IF u = seller /\ c = QuoteOf(t.trading_pair) THEN notional - seller_fee ELSE 0)

\* C13  Settlement amounts: a step changes every wallet balance by exactly the
\* sum, over the fills it executed, of -(q*p + fee) in quote and +q in base for
\* the buyer and of -q in base and +(q*p - fee) in quote for the seller, with
\* fee = q*p*0.001, whichever side is the taker.
SettlementAmounts ==
    [][NewTradeIds /= {} =>
          /\ \A i \in NewTradeIds :
                 /\ trades'[i].taker_fee = Fee(trades'[i].quantity, trades'[i].price)
                 /\ trades'[i].maker_fee = Fee(trades'[i].quantity, trades'[i].price)
          /\ \A k \in DOMAIN wallets :
                 wallets'[k].balance - wallets[k].balance
                     = SumOver(NewTradeIds,
                               [i \in NewTradeIds |-> SettlementDelta(k[1], k[2], trades'[i])])
      ]_vars

\* C14  Locked funds are released at order termination: a user all of whose
\* orders are filled, cancelled or rejected has locked_balance = 0 in every
\* currency.
LocksReleased ==
    \A u \in Users :
        (\A id \in DOMAIN orders : orders[id].user_id = u => orders[id].status \in Terminal)
            => \A k \in DOMAIN wallets : k[1] = u => wallets[k].locked_balance = 0

\* the step serves one more request of the given route
Served(op) == response'.seq = response.seq + 1 /\ response'.op = op

\* C15  Cancel of a non-cancellable order has no effect: a cancel request for
\* an unknown id or for an order whose status is not open or partially_filled
\* is refused and leaves every order, book, queue, trade and wallet row
\* unchanged.
CancelRefusedNoEffect ==
    [][(/\ Served("cancel_order")
        /\ \/ response'.request.order_id \notin DOMAIN orders
           \/ orders[response'.request.order_id].status \notin {"open", "partially_filled"})
          => /\ response'.status /= 200
             /\ UNCHANGED <<orders, wallets, trades, order_queues, order_books>>
      ]_vars

\* an order that is already cancelled has been cancelled again by its owner,
\* and the request was refused
CancelRefusedWitness ==
    /\ response.op = "cancel_order"
    /\ response.status = 400
    /\ orders[response.request.order_id].status = "cancelled"

\* the order rests in the book of its pair, on its own side
Resting(id) ==
    /\ orders[id].trading_pair \in DOMAIN order_books
    /\ id \in Range(order_books[orders[id].trading_pair][SideOf(orders[id])])

\* C16  Effect of a successful cancel: a step that cancels a resting order
\* (open or partially_filled) removes exactly that order from its pair's book,
\* sets its status to cancelled, lowers the owner's locked_balance by
\* remaining * limit price in quote (buy) or by remaining in base (sell), and
\* changes nothing else: no balance, no other order, wallet row, book, queue
\* or trade.
CancelEffect ==
    [][\A id \in DOMAIN orders :
          (/\ orders[id].status \in {"open", "partially_filled"}
           /\ Resting(id)
           /\ orders'[id].status = "cancelled") =>
              LET o == orders[id]
                  pair == o.trading_pair
                  k == <<o.user_id, IF o.side = "buy" THEN QuoteOf(pair) ELSE BaseOf(pair)>>
                  amount == IF o.side = "buy" THEN o.remaining_quantity * o.price
                            ELSE o.remaining_quantity
              IN  /\ order_books' = [order_books EXCEPT ![pair][SideOf(o)] =
                                         SelectSeq(@, LAMBDA x : x /= id)]
                  /\ orders' = [orders EXCEPT ![id].status = "cancelled"]
                  /\ wallets' = [wallets EXCEPT ![k].locked_balance = @ - amount]
                  /\ UNCHANGED <<trades, order_queues>>
      ]_vars

\* C17  Admission validation: a place_order request whose pair is not
\* supported, whose side is not buy/sell, whose type is not limit/market,
\* whose quantity is not > 0, or (limit) whose price is missing or not > 0 is
\* rejected, with no order created and no wallet, queue or book change.
AdmissionValidation ==
    [][(/\ Served("place_order")
        /\ LET req == response'.request
           IN  \/ req.pair \notin SUPPORTED_PAIRS
               \/ req.side \notin {"buy", "sell"}
               \/ req.order_type \notin {"limit", "market"}
               \/ ~(req.quantity > 0)
               \/ (req.order_type = "limit" /\ ~(req.price > 0)))
          => /\ response'.status = 400
             /\ UNCHANGED <<orders, wallets, trades, order_queues, order_books>>
      ]_vars

\* a request that passes the validation of place_order and is a limit buy or
\* a sell
LockingRequest(req) ==
    /\ req.side \in {"buy", "sell"}
    /\ req.order_type \in {"limit", "market"}
    /\ req.quantity > 0
    /\ req.order_type = "limit" => req.price /= NoPrice
    /\ req.side = "buy" => req.order_type = "limit"

FailedStepSettled ==
    [][\A pair \in DOMAIN order_queues :
          Dequeued(pair) =>
              LET id == Head(order_queues[pair])
                  o == orders[id]
                  k == <<o.user_id, IF o.side = "buy" THEN QuoteOf(pair) ELSE BaseOf(pair)>>
              IN  /\ orders'[id].status /= "pending"
                  /\ orders'[id].status \in {"rejected", "cancelled"} =>
                         /\ order_books'[pair] = order_books[pair]
                         /\ trades' = trades
                         /\ wallets'[k].locked_balance <= wallets[k].locked_balance
      ]_vars

\* C20  FIFO admission ordering per pair: when the worker takes an order of a
\* pair for matching, every order handed to add_order earlier for the same
\* pair has already been taken, whatever was admitted on other pairs.
AdmissionOrder ==
    [][\A pair \in DOMAIN order_queues :
          Dequeued(pair) =>
              \A a \in DOMAIN orders :
                  (orders[a].trading_pair = pair /\ a < Head(order_queues[pair]))
                      => a \notin Range(order_queues[pair])
      ]_vars

\* two orders of one pair with an order of another pair admitted in between:
\* the first has been matched, the later two are still queued
AdmissionOrderWitness ==
    /\ Len(orders) = 3
    /\ orders[1].trading_pair = orders[3].trading_pair
    /\ orders[2].trading_pair /= orders[1].trading_pair
    /\ orders[1].status /= "pending"
    /\ order_queues[orders[3].trading_pair] = <<3>>
    /\ order_queues[orders[2].trading_pair] = <<2>>
\* C21  Events only for committed changes: every trade event on the wire is
\* the event of a trade row that the matching step committed; no trade event
\* is emitted for a fill that the step rolled back.
TradeEventsCommitted ==
    \A i \in DOMAIN emitted :
        emitted[i].event = "trade" =>
            /\ emitted[i].id \in DOMAIN trades
            /\ trades[emitted[i].id].maker_order_id = emitted[i].data.maker_order_id
            /\ trades[emitted[i].id].taker_order_id = emitted[i].data.taker_order_id

\* the event is the trade event of row k of the trades table t
IsEventOfTrade(e, t, k) ==
    /\ e.event = "trade"
    /\ e.id = k
    /\ e.pair = t[k].trading_pair
    /\ e.data.maker_order_id = t[k].maker_order_id
    /\ e.data.taker_order_id = t[k].taker_order_id
    /\ e.data.price = t[k].price

\* C22  Event emission per step: a committed matching step emits one trade
\* event for each trade it produced, in execution order, followed by exactly
\* one order-book update event for its pair; a successful cancel_order emits
\* exactly one order-book update event for its pair.
EventsPerStep ==
    [][/\ \A pair \in DOMAIN order_queues :
              (Dequeued(pair) /\ orders'[Head(order_queues[pair])].status /= "pending") =>
                  LET n == Len(trades') - Len(trades)
                  IN  /\ Len(emitted') = n + 1
                      /\ \A k \in 1..n : IsEventOfTrade(emitted'[k], trades', Len(trades) + k)
                      /\ emitted'[n + 1].event = "orderbook_update"
                      /\ emitted'[n + 1].pair = pair
       /\ \A id \in DOMAIN orders :
              (orders[id].status /= "cancelled" /\ orders'[id].status = "cancelled") =>
                  /\ Len(emitted') = 1
                  /\ emitted'[1].event = "orderbook_update"
                  /\ emitted'[1].pair = orders[id].trading_pair
      ]_vars

\* a committed step has made two trades at different prices: their events are
\* on the wire in the order of the trades, followed by the book update
EventsPerStepWitness ==
    /\ Len(emitted) = 3
    /\ Len(trades) = 2
    /\ IsEventOfTrade(emitted[1], trades, 1)
    /\ IsEventOfTrade(emitted[2], trades, 2)
    /\ trades[1].price /= trades[2].price
    /\ emitted[3].event = "orderbook_update"

\* the step is a matching step or a successful cancel_order
EngineStep ==
    \/ \E pair \in DOMAIN order_queues : Dequeued(pair)
    \/ \E id \in DOMAIN orders : orders[id].status /= "cancelled" /\ orders'[id].status = "cancelled"

\* C23  Event routing: an order-book update or trade event for pair P is
\* delivered only to clients that are subscribed to P when it is emitted
\* (subscribed and not since unsubscribed); a client subscribed only to
\* another pair, or to none, does not receive it.
EventRouting ==
    [][EngineStep =>
          \A i \in DOMAIN emitted' :
              \A c \in emitted'[i].to :
                  c \in DOMAIN rooms /\ RoomOf(emitted'[i].pair) \in rooms[c]
      ]_vars

\* the prices of a set, best first for the side
RECURSIVE BestFirst(_, _)
BestFirst(P, side) ==
    IF P = {} THEN <<>>
    ELSE LET best == CHOOSE p \in P : \A q \in P : IF side = "bids" THEN p >= q ELSE p <= q
         IN  <<best>> \o BestFirst(P \ {best}, side)

\* the price levels of one side of a book: one level per price, best first,
\* with the sum of the remaining quantities of the orders resting at it
PriceLevels(pair, side) ==
    LET resting == Range(BookOf(pair, side))
        prices == BestFirst({orders[id].price : id \in resting}, side)
    IN  [i \in DOMAIN prices |->
            LET at == {id \in resting : orders[id].price = prices[i]}
            IN  [price |-> prices[i],
                 quantity |-> SumOver(at, [id \in at |-> orders[id].remaining_quantity])]]

\* C24  Snapshot content: get_orderbook(pair, depth) returns per side the
\* first depth price levels, best price first, each with its price and the sum
\* of the remaining quantities of the orders resting at that price (orders at
\* one price are one level); an unknown pair gives two empty sides.
SnapshotContent ==
    \A pair \in RequestPairs, depth \in 1..MaxDepth, side \in {"bids", "asks"} :
        LET shown == get_orderbook(orders, order_books, pair, depth)[side]
            levels == PriceLevels(pair, side)
        IN  /\ Len(shown) = Min(depth, Len(levels))
            /\ \A i \in DOMAIN shown :
                   shown[i].price = levels[i].price /\ shown[i].quantity = levels[i].quantity

\* what a get_orderbook call on a request thread returns for the pair the
\* processing thread is working on, on the order objects o and the books
Visible(o, books, wk) == get_orderbook(o, books, wk.pair, DefaultDepth)

\* what get_orderbook returns once the processing thread, left alone, has
\* completed the step it is in
VisibleAtStepEnd(o, w, t, books, wk) ==
    LET r == MatchLoop(StepState(o, w, t, books[wk.pair]), wk.id, wk.i, wk.remaining_qty,
                       o[wk.id].order_type = "limit")
        s1 == IF o[wk.id].order_type = "market" THEN r.st ELSE RestOrFill(r.st, wk.id, r.rem)
    IN  get_orderbook(CommitOrders(s1.o), [books EXCEPT ![wk.pair] = s1.book], wk.pair,
                      DefaultDepth)

\* C25  Snapshot consistency under concurrency: what get_orderbook returns on
\* a request thread while the processing thread is inside a matching step is
\* the book before that step or the book after it: when the unfinished step
\* changes what a snapshot shows, it shows from then on the book of the
\* completed step.
SnapshotSerializable ==
    [][(/\ worker.pc /= "idle" /\ worker'.pc /= "idle"
        /\ worker.aliased /\ worker'.aliased
        /\ \A id \in DOMAIN orders : orders'[id].status = "cancelled" => orders[id].status = "cancelled"
        /\ Visible(orders', order_books', worker') /= Visible(orders, order_books, worker))
          => Visible(orders', order_books', worker')
                 = VisibleAtStepEnd(orders', wallets', trades', order_books', worker')
      ]_vars

\* the row of a wallets table, or the column defaults when there is none
RowOf(w, k) == IF HasWallet(w, k) THEN w[k] ELSE NewWallet

\* C26  Deposit/withdraw round trip: in every wallet state and for every
\* amount > 0, WalletService.deposit followed by WalletService.withdraw of the
\* same amount succeeds and leaves balance and locked_balance as they were
\* before the deposit.
DepositWithdrawRoundTrip ==
    \A u \in Users, amount \in Amounts :
        LET k == <<u, QuoteCurrency>>
            d == WalletService_deposit(wallets, transactions, u, QuoteCurrency, amount)
            r == WalletService_withdraw(d.w, d.tx, u, QuoteCurrency, amount)
        IN  /\ d.raised = "" /\ r.raised = ""
            /\ r.w[k].balance = RowOf(wallets, k).balance
            /\ r.w[k].locked_balance = RowOf(wallets, k).locked_balance

\* C27  Withdrawal guard: WalletService.withdraw of an amount greater than the
\* wallet's available balance (balance - locked_balance) fails with
\* 'Insufficient balance', changes neither balance nor locked_balance and
\* records no transaction; a withdrawal that succeeds leaves locked_balance
\* as it was and covered by the balance.
WithdrawalGuard ==
    [][Served("withdraw") =>
          LET k == <<response'.request.user, response'.request.currency>>
              row == RowOf(wallets, k)
          IN  /\ response'.request.amount > row.balance - row.locked_balance =>
                     /\ response'.raised = "Insufficient balance"
                     /\ wallets'[k].balance = row.balance
                     /\ wallets'[k].locked_balance = row.locked_balance
                     /\ transactions' = transactions
              /\ response'.raised = "" =>
                     /\ wallets'[k].locked_balance = row.locked_balance
                     /\ wallets'[k].balance >= wallets'[k].locked_balance
      ]_vars

\* a withdrawal that the balance would cover, but not the available balance,
\* has been refused: part of the balance is locked
WithdrawalGuardWitness ==
    /\ response.op = "withdraw"
    /\ response.raised = "Insufficient balance"
    /\ LET k == <<response.request.user, response.request.currency>>
       IN  /\ wallets[k].locked_balance > 0
           /\ response.request.amount <= wallets[k].balance
           /\ response.request.amount > wallets[k].balance - wallets[k].locked_balance

OrderRecordInvariant ==
    \A id \in DOMAIN orders :
        /\ 0 <= orders[id].filled_quantity
        /\ orders[id].filled_quantity <= orders[id].quantity
        /\ orders[id].filled_quantity + orders[id].remaining_quantity = orders[id].quantity
        /\ orders[id].status = "filled" <=> orders[id].remaining_quantity = 0

\* the order a step has put into the book
NewResting(pair, side) == Range(order_books'[pair][side]) \ Range(BookOf(pair, side))

\* C30  Book ordering invariant: in FIFO mode as in PRO_RATA mode, after every
\* matching step and cancellation each side of each book is best-first (bids
\* by descending price, asks by ascending price) with orders of one price in
\* arrival order, and a new resting order is behind every resting order of
\* its price.
BookOrdering ==
    [][\A pair \in DOMAIN order_books', side \in {"bids", "asks"} :
          LET list == order_books'[pair][side]
          IN  /\ \A i \in DOMAIN list, j \in DOMAIN list :
                     i < j =>
                         \/ Better(IF side = "bids" THEN "buy" ELSE "sell",
                                   orders'[list[i]].price, orders'[list[j]].price)
                         \/ orders'[list[i]].price = orders'[list[j]].price /\ list[i] < list[j]
              /\ \A id \in NewResting(pair, side) :
                     \A i \in DOMAIN list, j \in DOMAIN list :
                         (list[i] = id /\ orders'[list[j]].price = orders'[id].price /\ i /= j)
                             => j < i
      ]_vars

\* the resting orders at the best level the order crosses, before the step
BestLevel(pair, id) ==
    CompatibleOrders(orders, id, order_books[pair][OppositeSide(orders[id])], 1, NoPrice)

\* C31  Pro-rata level walk: under PRO_RATA, a committed step for a limit
\* order whose quantity is at least the total resting at the best crossable
\* level fills every order of that level fully and removes it, and goes on to
\* the next crossable level: the order is rested only when no resting order
\* of the opposite side crosses it any more.
ProRataLevelWalk ==
    [][matching_algorithm = "PRO_RATA" =>
        \A pair \in DOMAIN order_queues :
            (/\ Dequeued(pair)
             /\ orders[Head(order_queues[pair])].order_type = "limit"
             /\ orders'[Head(order_queues[pair])].status /= "pending"
             /\ BestLevel(pair, Head(order_queues[pair])) /= <<>>
             /\ orders[Head(order_queues[pair])].remaining_quantity
                    >= SumRemaining(orders, BestLevel(pair, Head(order_queues[pair])))) =>
                LET id == Head(order_queues[pair])
                    opposite == Range(order_books'[pair][OppositeSide(orders[id])])
                IN  /\ \A m \in Range(BestLevel(pair, id)) :
                           orders'[m].remaining_quantity = 0 /\ m \notin opposite
                    /\ id \in Range(order_books'[pair][SideOf(orders[id])]) =>
                           \A m \in opposite : Incompatible(orders'[id], orders'[m])
      ]_vars

\* floor(Q * remaining / L) at 8 decimals: the share of a resting order
FloorShare(Q, remaining, L) == (((Q * remaining) \div L) \div Fine) * Fine

RECURSIVE SumFloorShares(_, _, _, _)
SumFloorShares(o, level, Q, L) ==
    IF level = <<>> THEN 0
    ELSE FloorShare(Q, o[Head(level)].remaining_quantity, L) + SumFloorShares(o, Tail(level), Q, L)

\* the share plus one increment of the truncation residual for the first
\* orders of the level in arrival order
ExactFill(o, level, i, Q, L) ==
    FloorShare(Q, o[level[i]].remaining_quantity, L)
        + (IF (i - 1) * Fine < Q - SumFloorShares(o, level, Q, L) THEN Fine ELSE 0)

\* what a step has traded against the resting order m
NewlyTraded(m) ==
    LET K == {k \in NewTradeIds : trades'[k].maker_order_id = m}
    IN  SumOver(K, [k \in K |-> trades'[k].quantity])

\* C32  Pro-rata allocation is exact: under PRO_RATA, a committed step for a
\* limit order whose quantity Q is smaller than the total L resting at the best
\* crossable level fills each resting order r of the level by
\* floor(Q * r.remaining / L) at 8 decimals plus its increment of the
\* truncation residual in arrival order; the fills sum to Q, and the taker
\* ends filled with remaining 0 and is not rested.
ProRataAllocationExact ==
    [][matching_algorithm = "PRO_RATA" =>
        \A pair \in DOMAIN order_queues :
            (/\ Dequeued(pair)
             /\ orders[Head(order_queues[pair])].order_type = "limit"
             /\ orders'[Head(order_queues[pair])].status /= "pending"
             /\ BestLevel(pair, Head(order_queues[pair])) /= <<>>
             /\ orders[Head(order_queues[pair])].remaining_quantity
                    < SumRemaining(orders, BestLevel(pair, Head(order_queues[pair])))) =>
                LET id == Head(order_queues[pair])
                    level == BestLevel(pair, id)
                    Q == orders[id].remaining_quantity
                    L == SumRemaining(orders, level)
                IN  /\ \A i \in DOMAIN level :
                           NewlyTraded(level[i]) = ExactFill(orders, level, i, Q, L)
                    /\ SumOver(NewTradeIds, [k \in NewTradeIds |-> trades'[k].quantity]) = Q
                    /\ orders'[id].status = "filled"
                    /\ orders'[id].remaining_quantity = 0
                    /\ id \notin Range(order_books'[pair].bids) \cup Range(order_books'[pair].asks)
      ]_vars

\* the buying order of a trade, its owner and the fee charged to it
BuyOrderOf(o, t) == IF o[t.taker_order_id].side = "buy" THEN t.taker_order_id ELSE t.maker_order_id
BuyerFeeOf(o, t) == IF o[t.taker_order_id].side = "buy" THEN t.taker_fee ELSE t.maker_fee

\* the notional the earlier fills of the buying order of trade k have unlocked
UnlockedBefore(o, t, k) ==
    LET J == {j \in 1..(k - 1) : BuyOrderOf(o, t[j]) = BuyOrderOf(o, t[k])}
    IN  SumOver(J, [j \in J |-> t[j].quantity * t[j].price])

\* the user has placed no other order: what is locked in the user's wallets
\* is locked for this order
SoleOrder(id) == \A j \in DOMAIN orders : j /= id => orders[j].user_id /= orders[id].user_id

\* C33  Admission lock covers settlement: for every fill, what is still
\* locked for the buying order right before the fill (the amount locked at
\* admission less the notional its earlier fills unlocked) is at least the
\* notional plus the buyer's fee of the fill.  The amount locked at admission
\* is quantity * price for a limit buy; for a market buy of a user with no
\* other order it is the locked balance of the quote wallet when the order is
\* taken from the queue.
AdmissionLockCovers ==
    [][\A k \in NewTradeIds :
          LET t == trades'[k]
              b == BuyOrderOf(orders, t)
              admitted == IF orders[b].order_type = "limit"
                          THEN orders[b].quantity * orders[b].price
                          ELSE wallets[<<orders[b].user_id, QuoteOf(t.trading_pair)>>].locked_balance
          IN  (orders[b].order_type = "limit" \/ SoleOrder(b)) =>
                  admitted - UnlockedBefore(orders, trades', k)
                      >= t.quantity * t.price + BuyerFeeOf(orders, t)
      ]_vars

\* C34  Book contents are valid: every order held in a book is a limit order
\* with status open or partially_filled and remaining_quantity > 0, is on the
\* side that matches its own side, in the book of its own pair, and appears
\* there exactly once.
BookContentsValid ==
    \A pair \in DOMAIN order_books, side \in {"bids", "asks"} :
        LET list == order_books[pair][side]
        IN  \A i \in DOMAIN list :
                /\ orders[list[i]].order_type = "limit"
                /\ orders[list[i]].status \in Live
                /\ orders[list[i]].remaining_quantity > 0
                /\ SideOf(orders[list[i]]) = side
                /\ orders[list[i]].trading_pair = pair
                /\ \A j \in DOMAIN list : list[j] = list[i] => j = i

\* the hot wallet total and the cold wallet balance of a currency (0 without a row)
HotTotal(hot, c) == IF c \in DOMAIN hot THEN hot[c].total_balance ELSE 0
ColdBalance(cold, c) == IF c \in DOMAIN cold THEN cold[c].balance ELSE 0

\* the from_cold transfers a step has executed
ExecutedIds ==
    {id \in DOMAIN cold_wallet_transfers' :
        /\ cold_wallet_transfers'[id].transfer_type = "from_cold"
        /\ cold_wallet_transfers'[id].status = "completed"
        /\ id \in DOMAIN cold_wallet_transfers => cold_wallet_transfers[id].status = "pending"}

\* C35  Cold/hot transfer conservation: every step leaves hot total + cold
\* balance of the currency unchanged; a successful transfer_to_cold_wallet
\* moves exactly the amount from the hot total to the cold balance and one
\* with an amount above the hot total fails and changes nothing; a from-cold
\* request that stays pending changes no balance, and the execution of a
\* from-cold transfer moves exactly its amount from the cold balance to the
\* hot total.
TransferConservation ==
    [][LET c == QuoteCurrency
           hot == HotTotal(exchange_wallets, c)
           cold == ColdBalance(cold_wallets, c)
           hot1 == HotTotal(exchange_wallets', c)
           cold1 == ColdBalance(cold_wallets', c)
       IN  /\ hot1 + cold1 = hot + cold
           /\ (Served("transfer_to_cold") /\ response'.status = 200) =>
                  /\ hot1 = hot - response'.request.amount
                  /\ cold1 = cold + response'.request.amount
           /\ (Served("transfer_to_cold") /\ response'.request.amount > hot) =>
                  /\ response'.status /= 200
                  /\ UNCHANGED <<exchange_wallets, cold_wallets, cold_wallet_transfers>>
           /\ (/\ Served("transfer_from_cold")
               /\ Len(cold_wallet_transfers') = Len(cold_wallet_transfers) + 1
               /\ cold_wallet_transfers'[Len(cold_wallet_transfers')].status = "pending") =>
                  UNCHANGED <<exchange_wallets, cold_wallets>>
           /\ \A id \in ExecutedIds :
                  /\ hot1 = hot + cold_wallet_transfers'[id].amount
                  /\ cold1 = cold - cold_wallet_transfers'[id].amount
      ]_vars

\* the currency a resting order has funds locked in, and what cancel_order or
\* its fills will unlock for it
CollateralCurrency(o) == IF o.side = "buy" THEN QuoteOf(o.trading_pair) ELSE BaseOf(o.trading_pair)
Collateral(o) == IF o.side = "buy" THEN o.remaining_quantity * o.price ELSE o.remaining_quantity

\* the resting orders of user u collateralised in currency c
RestingOf(u, c) ==
    {id \in DOMAIN orders :
        Resting(id) /\ orders[id].user_id = u /\ CollateralCurrency(orders[id]) = c}

\* C36  Every resting order is fully collateralised: for every user and
\* currency, locked_balance is at least the sum over the user's resting
\* orders of remaining * limit price (buy orders, quote currency) or remaining
\* (sell orders, base currency).
RestingCollateralised ==
    \A u \in Users, c \in Currencies :
        (IF HasWallet(wallets, <<u, c>>) THEN wallets[<<u, c>>].locked_balance ELSE 0)
            >= SumOver(RestingOf(u, c), [id \in RestingOf(u, c) |-> Collateral(orders[id])])

\* C37  Every live limit order is reachable: after every operation, a
\* matching step that raised and was rolled back included, every limit order
\* whose status is open or partially_filled is in the book of its pair, on its
\* own side, where later orders match it and cancel_order removes it.
LiveOrdersResting ==
    \A id \in DOMAIN orders :
        (orders[id].order_type = "limit" /\ orders[id].status \in Live) => Resting(id)

\* the selling order of a trade
SellOrderOf(o, t) == IF o[t.taker_order_id].side = "buy" THEN t.maker_order_id ELSE t.taker_order_id

\* C38  Trade well-formedness: every trade a step records has quantity > 0,
\* its maker and taker are two different orders of opposite sides on the
\* trade's pair, the maker was resting in the book when the step took the
\* taker from the queue, and the price is no worse than the limit of either
\* limit order: buy limit >= trade price >= sell limit.
TradeWellFormed ==
    [][\A k \in NewTradeIds :
          LET t == trades'[k]
              maker == t.maker_order_id
              taker == t.taker_order_id
              buy == BuyOrderOf(orders, t)
              sell == SellOrderOf(orders, t)
          IN  /\ t.quantity > 0
              /\ maker /= taker
              /\ orders[maker].side /= orders[taker].side
              /\ orders[maker].trading_pair = t.trading_pair
              /\ orders[taker].trading_pair = t.trading_pair
              /\ maker \in Range(BookOf(t.trading_pair, SideOf(orders[maker])))
              /\ orders[buy].order_type = "limit" => orders[buy].price >= t.price
              /\ orders[sell].order_type = "limit" => t.price >= orders[sell].price
      ]_vars

\* the order waits in the queue of a pair
Queued(id) ==
    /\ id \in DOMAIN orders
    /\ \E pair \in DOMAIN order_queues : id \in Range(order_queues[pair])

\* the order has been taken from its queue and handed to _match_order
Processed(id) == id \in DOMAIN orders /\ ~Queued(id)

\* C39  Worker liveness: while the engine is running, every order put on a
\* pair's queue by add_order is eventually taken from the queue and processed,
\* and exactly once: it is in one queue once, and once processed it is never
\* queued again.  This holds with orders arriving on other pairs, with a new
\* pair's queue created during the worker's sweep, and after a matching step
\* that raised.
WorkerLiveness ==
    /\ \A id \in 1..MaxOrdersWorker : Queued(id) ~> Processed(id)
    /\ [][\A id \in DOMAIN orders : Processed(id) => Processed(id)']_vars
    /\ [](\A id \in DOMAIN orders :
             Cardinality({<<pair, i>> \in (DOMAIN order_queues) \X (1..MaxOrdersWorker) :
                             i \in DOMAIN order_queues[pair] /\ order_queues[pair][i] = id}) <= 1)

\* a matching step has raised and left its order pending, the sweep has been
\* broken off by a queue created during the iteration, and an order admitted
\* after the failed one, on the other pair, has been processed
WorkerLivenessWitness ==
    /\ worker.error = "RuntimeError"
    /\ \E a \in DOMAIN orders, b \in DOMAIN orders :
           /\ a < b
           /\ Processed(a) /\ orders[a].status = "pending"
           /\ orders[b].trading_pair /= orders[a].trading_pair
           /\ Processed(b) /\ orders[b].status = "open"

\* C40  The cold wallet balance never goes negative and each from-cold
\* transfer is executed at most once: in every reachable state every cold
\* wallet's balance is >= 0, and a step in which an approval's execution
\* succeeds executes a transfer that was still pending before the step.
ColdBalanceSafe ==
    /\ [](\A c \in DOMAIN cold_wallets : cold_wallets[c].balance >= 0)
    /\ [][\A a \in Approvers :
             (approving[a] /= 0 /\ approving'[a] = 0 /\ response'.status = 200) =>
                 cold_wallet_transfers[approving[a]].status = "pending"]_vars

====
